---- MODULE Spec2Model ----
(***************************************************************************)
(* Model of package resdes: the path normalizer, Field and its policies,   *)
(* the ValidationErrors aggregate, DefaultMessageValidator and the         *)
(* Arrangement pipeline (Auth -> Validate -> Serve).                       *)
(*                                                                         *)
(* Strings that the code iterates rune by rune (paths) are sequences of    *)
(* one-character strings.  A Go `any` value is a record [type, v]; the     *)
(* untyped nil interface is NilValue.  A Go error is the sequence of its   *)
(* leaf causes in the order errors.Join / %w renders them; nil is <<>>.    *)
(***************************************************************************)
EXTENDS Integers, Sequences, FiniteSets, TLC

VARIABLES
    validator,  \* the DefaultMessageValidator object: paths, fields, customValidation
    arr,        \* the Arrangement object: Auth, Validate, Serve
    pc,         \* position of the running Arrangement.Exec
    message,    \* the message argument of the running Exec
    res,        \* local `res` of Arrangement.Exec
    serr,       \* local `serr` of Arrangement.Exec
    ret,        \* the pair Arrangement.Exec returned
    calls,      \* spy: the stage functions invoked by the running Exec, in order
    vret,       \* what the last DefaultMessageValidator.Exec returned
    errs,       \* a ValidationErrors object driven through its own API
    added,      \* spy: the (path, cause) pairs handed to errs so far, in order
    xi,         \* index of the loop over s.fields in the running validator Exec
    vcalls,     \* spy: what the running validator Exec invoked, in order
    first,      \* spy: per message, the Execs completed and what the first one rendered
    cvlog,      \* spy: the last CustomValidation call and the number of calls
    maskArg,    \* the fieldMask argument that was handed to ForMessage
    ex,         \* per running validator Exec: its position and its locals
    heap,       \* the ValidationErrors objects the running Execs allocated
    fp,         \* the fieldProcessor object: its cache
    fcall       \* spy: the last isFieldSet call, its result and the cache before it

\* the variables only the concurrent Execs and the presence resolver move
yvars == <<ex, heap, fp, fcall>>

\* the variables only the stepwise validator Exec and the path checks move
xvars == <<xi, vcalls, first, cvlog, maskArg, yvars>>

vars == <<validator, arr, pc, message, res, serr, ret, calls, vret, errs, added,
          xi, vcalls, first, cvlog, maskArg, ex, heap, fp, fcall>>

-----------------------------------------------------------------------------
(* Bounds *)

MaxFields == 2      \* declarations appended to one validator
MaxAdds == 3        \* fault additions to one ValidationErrors object

-----------------------------------------------------------------------------
(* Values, paths, messages *)

NilValue == [type |-> "nil", v |-> "nil"]
StrVal(s) == [type |-> "string", v |-> s]
IntVal(s) == [type |-> "int", v |-> s]

\* captured values and comparison targets handed to the builder; against the
\* target, the values are of another type (nil), unequal ("") and equal ("bob")
Values == {NilValue, StrVal(""), StrVal("bob")}
Targets == {StrVal("bob")}

PathId == <<"u", ".", "i", "d">>
PathFirstName == <<"u", ".", "f", "_", "n">>
PathFirstNameCamel == <<"u", ".", "f", "N">>
DeclPaths == {PathId, PathFirstName}

\* field masks handed to ForMessage: none, and one that names user.first_name
\* in its camelCase spelling and does not name user.id
Masks == {<< >>, <<PathFirstNameCamel>>}

Messages == {"m1", "m2"}

-----------------------------------------------------------------------------
(* path normalizer *)

ToUpper(c) ==
    CASE c = "a" -> "A" [] c = "b" -> "B" [] c = "d" -> "D" [] c = "f" -> "F"
      [] c = "i" -> "I" [] c = "n" -> "N" [] c = "u" -> "U"
      [] OTHER -> c

RECURSIVE NormalizeFrom(_, _, _)
NormalizeFrom(path, i, toUpper) ==
    IF i > Len(path) THEN << >>
    ELSE IF path[i] = "_" THEN NormalizeFrom(path, i + 1, TRUE)
    ELSE IF toUpper THEN <<ToUpper(path[i])>> \o NormalizeFrom(path, i + 1, FALSE)
    ELSE <<path[i]>> \o NormalizeFrom(path, i + 1, FALSE)

\* a NormalizePath that drops the underscores and leaves the case alone
NormalizePathKeepsCase(path) == SelectSeq(path, LAMBDA c : c # "_")

NormalizePath(path) == NormalizeFrom(path, 1, FALSE)

\* a Go map[string]struct{}: nil, or a set of keys
NilPaths == [isNil |-> TRUE, keys |-> {}]

\* a GetPathsFromMask that stores the mask entries as they were spelled
GetPathsFromMaskAsSpelled(fieldMask) ==
    IF Len(fieldMask) = 0 THEN NilPaths
    ELSE [isNil |-> FALSE, keys |-> {fieldMask[i] : i \in 1..Len(fieldMask)}]

GetPathsFromMask(fieldMask) ==
    IF Len(fieldMask) = 0 THEN NilPaths
    ELSE [isNil |-> FALSE,
          keys |-> {NormalizePath(fieldMask[i]) : i \in 1..Len(fieldMask)}]

\* IsPathInMask that lets every path through when no mask was supplied
IsPathInMaskDefaultAllow(path, paths) ==
    IF paths.isNil THEN TRUE ELSE path \in paths.keys

IsPathInMask(path, paths) ==
    IF paths.isNil THEN FALSE ELSE path \in paths.keys

-----------------------------------------------------------------------------
(* policies, conditions, Field *)

NonZero == "non-zero"
NotEqualTo == "must not equal"
MustEqual == "must equal"
Custom == "custom evaluation"

Always == "Always"
InMask == "InMask"

\* isZero that takes only typed default values for zero, not the nil interface
isZeroMissesNil(i) ==
    /\ i # NilValue
    /\ CASE i.type = "string" -> i.v = ""
         [] i.type = "int" -> i.v = "0"
         [] OTHER -> i.v = "nil"

isZero(i) ==
    IF i = NilValue THEN TRUE
    ELSE CASE i.type = "string" -> i.v = ""
           [] i.type = "int" -> i.v = "0"
           [] OTHER -> i.v = "nil"   \* pointer kinds: v.IsNil() || v.IsZero()

NewField(path, value, policy, condition, cmpTo, paths) ==
    LET normalizedPath == NormalizePath(path)
    IN  [path |-> path,
         value |-> value,
         inMask |-> IsPathInMask(normalizedPath, paths),
         policy |-> policy,
         condition |-> condition,
         zero |-> isZero(value),
         pathNormalized |-> normalizedPath,
         cmpTo |-> cmpTo]

\* errors: a leaf cause is a record, an error the sequence of its leaves
NoErr == << >>
Leaf(sentinel, id, a, b) == [sentinel |-> sentinel, id |-> id, a |-> a, b |-> b]
CustomCause(name) == Leaf(name, << >>, NilValue, NilValue)
TypeOf(i) == [type |-> "reflect.Type", v |-> i.type]

ErrFieldComparisonFailedNotComparable == "equality check failed, types not comparable"
ErrFieldMustEqualFailed == "expected values to be equal"
ErrFieldMustNotEqualFailed == "field set to forbidden value"
ErrFieldMustNotBeZeroFailed == "field set to zero value"

newFieldsNotComparableErr(id, exp, act) ==
    <<Leaf(ErrFieldComparisonFailedNotComparable, id, exp, act)>>
newFieldMustEqualFailedErr(id, exp, act) ==
    <<Leaf(ErrFieldMustEqualFailed, id, exp, act)>>
newFieldMustNotEqualFailedErr(id, act) ==
    <<Leaf(ErrFieldMustNotEqualFailed, id, act, NilValue)>>
newFieldMustNotBeZeroFailedErr(id, act) ==
    <<Leaf(ErrFieldMustNotBeZeroFailed, id, act, NilValue)>>

\* a value behind a pointer: ref is the address, v what it points at
PtrVal(ref, content) == [type |-> "*Address", v |-> content, ref |-> ref]

\* an equality that tells two pointers apart by their addresses
cmpEqualByIdentity(x, y) == x = y

\* cmp.Equal of two values of one type: by content, pointers are followed
cmpEqual(x, y) == x.v = y.v

\* a checkEquals that compares without looking at the types
checkEqualsNoTypeCheck(f) == [eq |-> f.value = f.cmpTo, err |-> NoErr]

\* (bool, error) of Field.checkEquals
checkEquals(f) ==
    IF f.value.type # f.cmpTo.type
    THEN [eq |-> FALSE,
          err |-> newFieldsNotComparableErr(f.path, TypeOf(f.value), TypeOf(f.cmpTo))]
    ELSE [eq |-> cmpEqual(f.value, f.cmpTo), err |-> NoErr]

FieldValidate(f) ==
    IF f.condition = InMask /\ ~f.inMask THEN NoErr
    ELSE IF f.policy = NonZero
    THEN IF f.zero THEN newFieldMustNotBeZeroFailedErr(f.path, f.value) ELSE NoErr
    ELSE LET c == checkEquals(f)
         IN  IF c.err # NoErr THEN c.err
             ELSE IF f.policy = NotEqualTo /\ c.eq
             THEN newFieldMustNotEqualFailedErr(f.path, f.cmpTo)
             ELSE IF f.policy = MustEqual /\ ~c.eq
             THEN newFieldMustEqualFailedErr(f.path, f.cmpTo, f.value)
             ELSE NoErr

-----------------------------------------------------------------------------
(* ValidationErrors and FieldError *)

EmptyIdx == [p \in {} |-> 0]

NewValidationErrors ==
    [isNil |-> FALSE, FieldErrors |-> << >>, CustomValidationError |-> NoErr,
     idx |-> EmptyIdx]

\* the nil *ValidationErrors
NilErrs ==
    [isNil |-> TRUE, FieldErrors |-> << >>, CustomValidationError |-> NoErr,
     idx |-> EmptyIdx]

\* errors.Join drops nil arguments and keeps the others in order
errorsJoin(a, b) == a \o b

FieldErrorFromField(f, err) ==
    [Path |-> f.path, Policy |-> f.policy, Value |-> f.value,
     Expected |-> f.cmpTo, Err |-> err]

\* addErr that never looks the path up and always appends
addErrAlwaysAppends(v, fieldErr) ==
    [v EXCEPT !.FieldErrors = Append(@, fieldErr),
              !.idx = (fieldErr.Path :> (Len(v.FieldErrors) + 1)) @@ @]

\* an addErr whose merge takes over the policy, value and target of the new fault
addErrOverwritesEntry(v, fieldErr) ==
    IF fieldErr.Path \in DOMAIN v.idx
    THEN [v EXCEPT !.FieldErrors[v.idx[fieldErr.Path]] =
                      [fieldErr EXCEPT !.Err = errorsJoin(@, fieldErr.Err)]]
    ELSE [v EXCEPT !.FieldErrors = Append(@, fieldErr),
                   !.idx = (fieldErr.Path :> (Len(v.FieldErrors) + 1)) @@ @]

addErr(v, fieldErr) ==
    IF fieldErr.Path \in DOMAIN v.idx
    THEN [v EXCEPT !.FieldErrors[v.idx[fieldErr.Path]].Err = errorsJoin(@, fieldErr.Err)]
    ELSE [v EXCEPT !.FieldErrors = Append(@, fieldErr),
                   !.idx = (fieldErr.Path :> (Len(v.FieldErrors) + 1)) @@ @]

addFieldErr(v, field, err) == addErr(v, FieldErrorFromField(field, err))

\* options of AddFieldErr: a sequence of [opt, value]
WithValue(value) == [opt |-> "WithValue", value |-> value]
WithExpectedValue(value) == [opt |-> "WithExpectedValue", value |-> value]

RECURSIVE ApplyOptions(_, _, _)
ApplyOptions(fe, options, i) ==
    IF i > Len(options) THEN fe
    ELSE ApplyOptions(
            IF options[i].opt = "WithValue"
            THEN [fe EXCEPT !.Value = options[i].value]
            ELSE [fe EXCEPT !.Expected = options[i].value],
            options, i + 1)

AddFieldErr(v, path, err, options) ==
    addErr(v, ApplyOptions([Path |-> path, Policy |-> Custom, Value |-> NilValue,
                            Expected |-> NilValue, Err |-> err], options, 1))

\* a HasErrors that looks at the field faults only
HasErrorsFieldsOnly(v) == Len(v.FieldErrors) > 0

HasErrors(v) == Len(v.FieldErrors) > 0 \/ v.CustomValidationError # NoErr

\* a SetCustomValidationErr that files the error among the field faults too
SetCustomValidationErrAsFieldErr(v, err) ==
    [v EXCEPT !.CustomValidationError = err,
              !.FieldErrors = Append(@, [Path |-> << >>, Policy |-> Custom,
                                         Value |-> NilValue, Expected |-> NilValue,
                                         Err |-> err])]

SetCustomValidationErr(v, err) == [v EXCEPT !.CustomValidationError = err]

Paths(v) == [i \in 1..Len(v.FieldErrors) |-> v.FieldErrors[i].Path]

-----------------------------------------------------------------------------
(* DefaultMessageValidator *)

\* customValidation: nil, or one of these caller-supplied functions.  A function
\* is described by the AddFieldErr calls it makes on the collector and by what
\* it returns: nil, the collector itself, or an error of its own.
NilFn == "nil"
CustomFns == {"cvField", "cvIo", "cvSelf"}
\* with a function that adds a field fault and returns an error of its own
XCustomFns == CustomFns \cup {"cvBoth"}

CustomAdds(fn, msg) ==
    CASE fn = "cvField" ->
            IF msg = "m1"
            THEN <<[path |-> PathId, err |-> <<CustomCause("user id cannot be abc123")>>,
                    options |-> << >>]>>
            ELSE << >>
      [] fn = "cvSelf" ->
            IF msg = "m2"
            THEN <<[path |-> PathFirstName, err |-> <<CustomCause("bad first name")>>,
                    options |-> <<WithValue(StrVal("bob"))>>]>>
            ELSE << >>
      [] fn = "cvBoth" ->
            <<[path |-> PathId, err |-> <<CustomCause("user id is taken")>>,
               options |-> << >>]>>
      [] OTHER -> << >>

CustomRet(fn, msg) ==
    CASE fn = "cvIo" -> "io"
      [] fn = "cvBoth" -> "db"
      [] fn = "cvSelf" -> "errs"
      [] OTHER -> "nil"

RECURSIVE CustomCall(_, _, _)
CustomCall(v, adds, i) ==
    IF i > Len(adds) THEN v
    ELSE CustomCall(AddFieldErr(v, adds[i].path, adds[i].err, adds[i].options),
                    adds, i + 1)

WrapCustomErr(r) ==
    <<CustomCause("an error occurred during custom message validation"), CustomCause(r)>>

\* the Exec calls that may run at the same time, none of them entered yet; an
\* address is the name of the Exec that allocated the object, nil is "nil"
Execs == {"e1", "e2"}
NilAddr == "nil"
IdleFrame == [pc |-> "idle", message |-> "m1", xi |-> 1, errs |-> NilAddr, vret |-> NilAddr]
NoFrames == [e \in Execs |-> IdleFrame]
EmptyHeap == [a \in Execs |-> NilErrs]

\* newFieldProcessor: an empty cache; no isFieldSet call yet
EmptyCache == [k \in {} |-> [set |-> FALSE, value |-> << >>]]
newFieldProcessor == [cache |-> EmptyCache]
NoCall == [path |-> << >>, ret |-> "none", before |-> EmptyCache]

\* spies of the validator before any Exec and any CustomValidation call
NoExecs == [m \in Messages |-> [n |-> 0, out |-> << >>, agg |-> NilErrs]]
NoCustomValidation == [act |-> NilFn, prev |-> NilFn, fields |-> << >>, n |-> 0]

ForMessage(fieldMask) ==
    [paths |-> GetPathsFromMask(fieldMask), fields |-> << >>, customValidation |-> NilFn]

AssertNonZero(s, path, value) ==
    [s EXCEPT !.fields = Append(@, NewField(path, value, NonZero, Always, NilValue, s.paths))]

AssertNotEqualTo(s, path, value, notEqualTo) ==
    [s EXCEPT !.fields = Append(@, NewField(path, value, NotEqualTo, Always, notEqualTo, s.paths))]

AssertEqualTo(s, path, value, equalTo) ==
    [s EXCEPT !.fields = Append(@, NewField(path, value, MustEqual, Always, equalTo, s.paths))]

AssertNonZeroWhenInMask(s, path, value) ==
    [s EXCEPT !.fields = Append(@, NewField(path, value, NonZero, InMask, NilValue, s.paths))]

AssertNotEqualToWhenInMask(s, path, value, notEqualTo) ==
    [s EXCEPT !.fields = Append(@, NewField(path, value, NotEqualTo, InMask, notEqualTo, s.paths))]

AssertEqualToWhenInMask(s, path, value, equalTo) ==
    [s EXCEPT !.fields = Append(@, NewField(path, value, MustEqual, InMask, equalTo, s.paths))]

\* a CustomValidation that keeps a function that is already set
CustomValidationKeepsFirst(s, act) ==
    IF s.customValidation # NilFn THEN s ELSE [s EXCEPT !.customValidation = act]

CustomValidation(s, act) == [s EXCEPT !.customValidation = act]

\* step 1 of Exec: the custom validation function, if set
RunCustom(s, msg, v) ==
    IF s.customValidation # NilFn
    THEN LET called == CustomCall(v, CustomAdds(s.customValidation, msg), 1)
             r == CustomRet(s.customValidation, msg)
         IN  IF r # "nil" /\ r # "errs"
             THEN SetCustomValidationErr(called, WrapCustomErr(r))
             ELSE called
    ELSE v

\* a loop over s.fields that breaks at the first incomparable assertion
RECURSIVE ValidateFieldsStopsAtNotComparable(_, _, _)
ValidateFieldsStopsAtNotComparable(fields, i, v) ==
    IF i > Len(fields) THEN v
    ELSE LET err == FieldValidate(fields[i])
         IN  IF err # NoErr /\ err[1].sentinel = ErrFieldComparisonFailedNotComparable
             THEN addFieldErr(v, fields[i], err)
             ELSE ValidateFieldsStopsAtNotComparable(fields, i + 1,
                     IF err # NoErr THEN addFieldErr(v, fields[i], err) ELSE v)

\* a loop over s.fields that runs from the last declaration to the first
RECURSIVE ValidateFieldsBackwards(_, _, _)
ValidateFieldsBackwards(fields, i, v) ==
    IF i > Len(fields) THEN v
    ELSE LET f == fields[Len(fields) + 1 - i]
             err == FieldValidate(f)
         IN  ValidateFieldsBackwards(fields, i + 1,
                                     IF err # NoErr THEN addFieldErr(v, f, err) ELSE v)

\* step 2 of Exec: the loop over s.fields
RECURSIVE ValidateFields(_, _, _)
ValidateFields(fields, i, v) ==
    IF i > Len(fields) THEN v
    ELSE LET err == FieldValidate(fields[i])
         IN  ValidateFields(fields, i + 1,
                            IF err # NoErr THEN addFieldErr(v, fields[i], err) ELSE v)

ValidatorExec(s, msg) ==
    LET v == ValidateFields(s.fields, 1, RunCustom(s, msg, NewValidationErrors))
    IN  IF HasErrors(v) THEN v ELSE NilErrs

-----------------------------------------------------------------------------
(* Error envelope *)

\* a *AuthError / *ServeErr: nil, or a wrapper of the stage's error
NilStageErr == [isNil |-> TRUE, Err |-> NoErr]
NewAuthError(err) == [isNil |-> FALSE, Err |-> err]
NewServeError(err) == [isNil |-> FALSE, Err |-> err]

\* &Error{}
NewError ==
    [isNil |-> FALSE, AuthError |-> NilStageErr, ValidationErrs |-> NilErrs,
     ServeError |-> NilStageErr]

\* the nil *Error
NilError ==
    [isNil |-> TRUE, AuthError |-> NilStageErr, ValidationErrs |-> NilErrs,
     ServeError |-> NilStageErr]

SetAuthError(e, err) == [e EXCEPT !.AuthError = NewAuthError(err)]
SetValidationErrors(e, v) == [e EXCEPT !.ValidationErrs = v]
SetServeError(e, err) == [e EXCEPT !.ServeError = NewServeError(err)]

GetAuthError(e) == IF e.isNil THEN NilStageErr ELSE e.AuthError
GetValidationErrors(e) == IF e.isNil THEN NilErrs ELSE e.ValidationErrs
GetServeError(e) == IF e.isNil THEN NilStageErr ELSE e.ServeError

-----------------------------------------------------------------------------
(* Arrangement *)

\* stage functions a caller can plug in, described by what they return
NilAuther == "nil"
Authers == {"authOk", "authDeny"}
AuthReturn(a, msg) ==
    IF a = "authDeny" THEN <<CustomCause("caller id cannot be empty")>> ELSE NoErr

NilValidator == "nil"
TheValidator == "validator"     \* a pointer to the validator object

ZeroU == "zero"                 \* the zero value of the response type U
NilServer == "nil"
Servers == {"srvOk", "srvZero", "srvFail", "srvBoth"}
ServeReturn(f, msg) ==
    CASE f = "srvOk" -> [val |-> msg, err |-> NoErr]
      [] f = "srvZero" -> [val |-> ZeroU, err |-> NoErr]
      [] f = "srvFail" -> [val |-> ZeroU, err |-> <<CustomCause("serve failed")>>]
      [] OTHER -> [val |-> "partial", err |-> <<CustomCause("serve failed")>>]

Arrange == [Auth |-> NilAuther, Validate |-> NilValidator, Serve |-> NilServer]

Call(stage, failed, val) == [stage |-> stage, failed |-> failed, val |-> val]

WithAuth ==
    /\ pc = "idle"
    /\ \E act \in Authers \cup {NilAuther} : arr' = [arr EXCEPT !.Auth = act]
    /\ UNCHANGED <<validator, pc, message, res, serr, ret, calls, vret, errs, added, xvars>>

WithValidate ==
    /\ pc = "idle"
    /\ \E fv \in {TheValidator, NilValidator} : arr' = [arr EXCEPT !.Validate = fv]
    /\ UNCHANGED <<validator, pc, message, res, serr, ret, calls, vret, errs, added, xvars>>

WithServe ==
    /\ pc = "idle"
    /\ \E act \in Servers \cup {NilServer} : arr' = [arr EXCEPT !.Serve = act]
    /\ UNCHANGED <<validator, pc, message, res, serr, ret, calls, vret, errs, added, xvars>>

\* ExecStart that runs Validate before looking at Auth
ExecStartSkipsAuth ==
    /\ pc = "idle"
    /\ \E m \in Messages : message' = m
    /\ pc' = "validate"
    /\ res' = ZeroU
    /\ serr' = NewError
    /\ calls' = << >>
    /\ UNCHANGED <<validator, arr, ret, vret, errs, added, xvars>>

\* ExecStart that keeps one envelope across calls instead of allocating it
ExecStartSharedErr ==
    /\ pc = "idle"
    /\ \E m \in Messages : message' = m
    /\ pc' = "auth"
    /\ res' = ZeroU
    /\ serr' = IF serr.isNil THEN NewError ELSE serr
    /\ calls' = << >>
    /\ UNCHANGED <<validator, arr, ret, vret, errs, added, xvars>>

\* Arrangement.Exec is entered: var res U; serr := &Error{}
ExecStart ==
    /\ pc = "idle"
    /\ \E m \in Messages : message' = m
    /\ pc' = "auth"
    /\ res' = ZeroU
    /\ serr' = NewError
    /\ calls' = << >>
    /\ UNCHANGED <<validator, arr, ret, vret, errs, added, xvars>>

\* AuthStage that records the error but goes on to the next stage
AuthStageNoReturn ==
    /\ pc = "auth"
    /\ IF arr.Auth # NilAuther
       THEN LET err == AuthReturn(arr.Auth, message)
            IN  /\ calls' = Append(calls, Call("Auth", err # NoErr, ZeroU))
                /\ IF err # NoErr
                   THEN /\ serr' = SetAuthError(serr, err)
                        /\ ret' = [res |-> res, err |-> serr']
                   ELSE UNCHANGED <<serr, ret>>
       ELSE UNCHANGED <<calls, serr, ret>>
    /\ pc' = "validate"
    /\ UNCHANGED <<validator, arr, message, res, vret, errs, added, xvars>>

AuthStage ==
    /\ pc = "auth"
    /\ IF arr.Auth # NilAuther
       THEN LET err == AuthReturn(arr.Auth, message)
            IN  /\ calls' = Append(calls, Call("Auth", err # NoErr, ZeroU))
                /\ IF err # NoErr
                   THEN /\ serr' = SetAuthError(serr, err)
                        /\ ret' = [res |-> res, err |-> serr']
                        /\ pc' = "done"
                   ELSE /\ pc' = "validate"
                        /\ UNCHANGED <<serr, ret>>
       ELSE /\ pc' = "validate"
            /\ UNCHANGED <<calls, serr, ret>>
    /\ UNCHANGED <<validator, arr, message, res, vret, errs, added, xvars>>

\* ValidateStage that records the faults but goes on to Serve
ValidateStageNoReturn ==
    /\ pc = "validate"
    /\ IF arr.Validate # NilValidator
       THEN LET err == ValidatorExec(validator, message)
            IN  /\ calls' = Append(calls, Call("Validate", ~err.isNil, ZeroU))
                /\ vret' = err
                /\ IF ~err.isNil
                   THEN /\ serr' = SetValidationErrors(serr, err)
                        /\ ret' = [res |-> res, err |-> serr']
                   ELSE UNCHANGED <<serr, ret>>
       ELSE UNCHANGED <<calls, vret, serr, ret>>
    /\ pc' = "serve"
    /\ UNCHANGED <<validator, arr, message, res, errs, added, xvars>>

ValidateStage ==
    /\ pc = "validate"
    /\ IF arr.Validate # NilValidator
       THEN LET err == ValidatorExec(validator, message)
            IN  /\ calls' = Append(calls, Call("Validate", ~err.isNil, ZeroU))
                /\ vret' = err
                /\ IF ~err.isNil
                   THEN /\ serr' = SetValidationErrors(serr, err)
                        /\ ret' = [res |-> res, err |-> serr']
                        /\ pc' = "done"
                   ELSE /\ pc' = "serve"
                        /\ UNCHANGED <<serr, ret>>
       ELSE /\ pc' = "serve"
            /\ UNCHANGED <<calls, vret, serr, ret>>
    /\ UNCHANGED <<validator, arr, message, res, errs, added, xvars>>

\* ServeStage that treats a missing Serve function as a failure
ServeStageRequired ==
    /\ pc = "serve"
    /\ IF arr.Serve # NilServer
       THEN LET r == ServeReturn(arr.Serve, message)
            IN  /\ calls' = Append(calls, Call("Serve", r.err # NoErr, r.val))
                /\ res' = r.val
                /\ IF r.err # NoErr
                   THEN /\ serr' = SetServeError(serr, r.err)
                        /\ ret' = [res |-> res', err |-> serr']
                   ELSE /\ ret' = [res |-> res', err |-> NilError]
                        /\ UNCHANGED serr
       ELSE /\ serr' = SetServeError(serr, <<CustomCause("no serve function")>>)
            /\ ret' = [res |-> res, err |-> serr']
            /\ UNCHANGED <<calls, res>>
    /\ pc' = "done"
    /\ UNCHANGED <<validator, arr, message, vret, errs, added, xvars>>

\* ServeStage that forgets to hand the payload of Serve to the caller
ServeStageDropsPayload ==
    /\ pc = "serve"
    /\ IF arr.Serve # NilServer
       THEN LET r == ServeReturn(arr.Serve, message)
            IN  /\ calls' = Append(calls, Call("Serve", r.err # NoErr, r.val))
                /\ res' = r.val
                /\ IF r.err # NoErr
                   THEN /\ serr' = SetServeError(serr, r.err)
                        /\ ret' = [res |-> res', err |-> serr']
                   ELSE /\ ret' = [res |-> res, err |-> NilError]
                        /\ UNCHANGED serr
       ELSE /\ ret' = [res |-> res, err |-> NilError]
            /\ UNCHANGED <<calls, res, serr>>
    /\ pc' = "done"
    /\ UNCHANGED <<validator, arr, message, vret, errs, added, xvars>>

ServeStage ==
    /\ pc = "serve"
    /\ IF arr.Serve # NilServer
       THEN LET r == ServeReturn(arr.Serve, message)
            IN  /\ calls' = Append(calls, Call("Serve", r.err # NoErr, r.val))
                /\ res' = r.val
                /\ IF r.err # NoErr
                   THEN /\ serr' = SetServeError(serr, r.err)
                        /\ ret' = [res |-> res', err |-> serr']
                   ELSE /\ ret' = [res |-> res', err |-> NilError]
                        /\ UNCHANGED serr
       ELSE /\ ret' = [res |-> res, err |-> NilError]
            /\ UNCHANGED <<calls, res, serr>>
    /\ pc' = "done"
    /\ UNCHANGED <<validator, arr, message, vret, errs, added, xvars>>

\* Exec has returned `ret`; control is back with the caller
ExecReturn ==
    /\ pc = "done"
    /\ pc' = "idle"
    /\ UNCHANGED <<validator, arr, message, res, serr, ret, calls, vret, errs, added, xvars>>

\* validators a caller hands to WithValidate
SampleValidators ==
    {ForMessage(<< >>),
     AssertNonZero(ForMessage(<< >>), PathId, StrVal("")),
     AssertNonZero(ForMessage(<< >>), PathId, StrVal("bob")),
     CustomValidation(AssertNonZero(ForMessage(<< >>), PathId, StrVal("bob")), "cvField"),
     CustomValidation(ForMessage(<< >>), "cvIo"),
     AssertNonZeroWhenInMask(
        AssertNonZero(ForMessage(<<PathFirstNameCamel>>), PathId, StrVal("bob")),
        PathFirstName, StrVal(""))}

NoRet == [res |-> ZeroU, err |-> NilError]

Init ==
    /\ validator \in SampleValidators
    /\ arr = Arrange
    /\ pc = "idle"
    /\ message = "m1"
    /\ res = ZeroU
    /\ serr = NilError
    /\ ret = NoRet
    /\ calls = << >>
    /\ vret = NilErrs
    /\ errs = NewValidationErrors
    /\ added = << >>
    /\ xi = 1
    /\ vcalls = << >>
    /\ first = NoExecs
    /\ cvlog = NoCustomValidation
    /\ ex = NoFrames
    /\ heap = EmptyHeap
    /\ fp = newFieldProcessor
    /\ fcall = NoCall
    /\ maskArg = (IF validator.paths.isNil THEN << >> ELSE <<PathFirstNameCamel>>)

Next ==
    \/ WithAuth
    \/ WithValidate
    \/ WithServe
    \/ ExecStart
    \/ AuthStage
    \/ ValidateStage
    \/ ServeStage
    \/ ExecReturn

Spec == Init /\ [][Next]_vars

-----------------------------------------------------------------------------
(* The validator on its own: builder calls and Exec *)

CanDeclare == pc = "idle" /\ Len(validator.fields) < MaxFields

CallAssertNonZero ==
    /\ CanDeclare
    /\ \E p \in DeclPaths, v \in Values : validator' = AssertNonZero(validator, p, v)
    /\ UNCHANGED <<arr, pc, message, res, serr, ret, calls, vret, errs, added, xvars>>

CallAssertNotEqualTo ==
    /\ CanDeclare
    /\ \E p \in DeclPaths, v \in Values, t \in Targets :
          validator' = AssertNotEqualTo(validator, p, v, t)
    /\ UNCHANGED <<arr, pc, message, res, serr, ret, calls, vret, errs, added, xvars>>

CallAssertEqualTo ==
    /\ CanDeclare
    /\ \E p \in DeclPaths, v \in Values, t \in Targets :
          validator' = AssertEqualTo(validator, p, v, t)
    /\ UNCHANGED <<arr, pc, message, res, serr, ret, calls, vret, errs, added, xvars>>

CallAssertNonZeroWhenInMask ==
    /\ CanDeclare
    /\ \E p \in DeclPaths, v \in Values :
          validator' = AssertNonZeroWhenInMask(validator, p, v)
    /\ UNCHANGED <<arr, pc, message, res, serr, ret, calls, vret, errs, added, xvars>>

CallAssertNotEqualToWhenInMask ==
    /\ CanDeclare
    /\ \E p \in DeclPaths, v \in Values, t \in Targets :
          validator' = AssertNotEqualToWhenInMask(validator, p, v, t)
    /\ UNCHANGED <<arr, pc, message, res, serr, ret, calls, vret, errs, added, xvars>>

CallAssertEqualToWhenInMask ==
    /\ CanDeclare
    /\ \E p \in DeclPaths, v \in Values, t \in Targets :
          validator' = AssertEqualToWhenInMask(validator, p, v, t)
    /\ UNCHANGED <<arr, pc, message, res, serr, ret, calls, vret, errs, added, xvars>>

CallCustomValidation ==
    /\ pc = "idle"
    /\ \E act \in CustomFns \cup {NilFn} : validator' = CustomValidation(validator, act)
    /\ UNCHANGED <<arr, pc, message, res, serr, ret, calls, vret, errs, added, xvars>>

\* DefaultMessageValidator.Exec, called directly
CallValidatorExec ==
    /\ pc = "idle"
    /\ \E m \in Messages :
          /\ message' = m
          /\ vret' = ValidatorExec(validator, m)
    /\ pc' = "vdone"
    /\ UNCHANGED <<validator, arr, res, serr, ret, calls, errs, added, xvars>>

\* control is back with the caller, which drops the result
ValidatorReturn ==
    /\ pc = "vdone"
    /\ pc' = "idle"
    /\ message' = "m1"
    /\ vret' = NilErrs
    /\ UNCHANGED <<validator, arr, res, serr, ret, calls, errs, added, xvars>>

InitV ==
    /\ \E fieldMask \in Masks :
          /\ validator = ForMessage(fieldMask)
          /\ maskArg = fieldMask
    /\ arr = Arrange
    /\ pc = "idle"
    /\ message = "m1"
    /\ res = ZeroU
    /\ serr = NilError
    /\ ret = NoRet
    /\ calls = << >>
    /\ vret = NilErrs
    /\ errs = NewValidationErrors
    /\ added = << >>
    /\ xi = 1
    /\ vcalls = << >>
    /\ first = NoExecs
    /\ cvlog = NoCustomValidation
    /\ ex = NoFrames
    /\ heap = EmptyHeap
    /\ fp = newFieldProcessor
    /\ fcall = NoCall

NextV ==
    \/ CallAssertNonZero
    \/ CallAssertNotEqualTo
    \/ CallAssertEqualTo
    \/ CallAssertNonZeroWhenInMask
    \/ CallAssertNotEqualToWhenInMask
    \/ CallAssertEqualToWhenInMask
    \/ CallCustomValidation
    \/ CallValidatorExec
    \/ ValidatorReturn

SpecV == InitV /\ [][NextV]_vars

-----------------------------------------------------------------------------
(* A ValidationErrors object on its own: fault additions in any mix *)

\* what AddFieldErr is called with
AddedCauses == {NoErr, <<CustomCause("user id cannot be abc123")>>}
AddedOptions == {<< >>, <<WithValue(StrVal("bob"))>>}

\* the declared fields whose Validate fails: what Exec calls addFieldErr with
FailingFields ==
    {f \in {NewField(p, v, NonZero, Always, NilValue, NilPaths) :
                p \in DeclPaths, v \in Values}
           \cup
           {NewField(x[1], x[2], x[3], Always, x[4], NilPaths) :
                x \in DeclPaths \X Values \X {NotEqualTo, MustEqual} \X Targets} :
        FieldValidate(f) # NoErr}

CallAddFieldErr ==
    /\ Len(added) < MaxAdds
    /\ \E p \in DeclPaths, e \in AddedCauses, o \in AddedOptions :
          /\ errs' = AddFieldErr(errs, p, e, o)
          /\ added' = Append(added, [path |-> p, err |-> e])
    /\ UNCHANGED <<validator, arr, pc, message, res, serr, ret, calls, vret, xvars>>

CalladdFieldErr ==
    /\ Len(added) < MaxAdds
    /\ \E f \in FailingFields :
          /\ errs' = addFieldErr(errs, f, FieldValidate(f))
          /\ added' = Append(added, [path |-> f.path, err |-> FieldValidate(f)])
    /\ UNCHANGED <<validator, arr, pc, message, res, serr, ret, calls, vret, xvars>>

CallSetCustomValidationErr ==
    /\ \E e \in {NoErr, WrapCustomErr("io")} : errs' = SetCustomValidationErr(errs, e)
    /\ UNCHANGED <<validator, arr, pc, message, res, serr, ret, calls, vret, added, xvars>>

InitAgg ==
    /\ validator = ForMessage(<< >>)
    /\ arr = Arrange
    /\ pc = "idle"
    /\ message = "m1"
    /\ res = ZeroU
    /\ serr = NilError
    /\ ret = NoRet
    /\ calls = << >>
    /\ vret = NilErrs
    /\ errs = NewValidationErrors
    /\ added = << >>
    /\ xi = 1
    /\ vcalls = << >>
    /\ first = NoExecs
    /\ cvlog = NoCustomValidation
    /\ ex = NoFrames
    /\ heap = EmptyHeap
    /\ fp = newFieldProcessor
    /\ fcall = NoCall
    /\ maskArg = << >>

NextAgg ==
    \/ CallAddFieldErr
    \/ CalladdFieldErr
    \/ CallSetCustomValidationErr

SpecAgg == InitAgg /\ [][NextAgg]_vars

-----------------------------------------------------------------------------
(* Claims about Arrangement.Exec, checked under Spec *)

Stages == <<"Auth", "Validate", "Serve">>
StageNo(st) == CHOOSE n \in 1..3 : Stages[n] = st
Configured(st) ==
    CASE st = "Auth" -> arr.Auth # NilAuther
      [] st = "Validate" -> arr.Validate # NilValidator
      [] OTHER -> arr.Serve # NilServer
Invoked(st) == \E i \in 1..Len(calls) : calls[i].stage = st
Failed(st) == \E i \in 1..Len(calls) : calls[i].stage = st /\ calls[i].failed
Count(st) == Cardinality({i \in 1..Len(calls) : calls[i].stage = st})
AnyFailed == \E i \in 1..Len(calls) : calls[i].failed

\* the error classes a returned *Error carries
Populated(e) ==
    {c \in {"Auth", "Validate", "Serve"} :
        CASE c = "Auth" -> ~GetAuthError(e).isNil
          [] c = "Validate" -> ~GetValidationErrors(e).isNil
          [] OTHER -> ~GetServeError(e).isNil}

\* C1: when the Auth function returns an error, the Exec ends there: the
\* returned envelope carries the auth error and nothing else, and neither the
\* validator nor the Serve function has been invoked (count 0 for both).
C1_AuthShortCircuit ==
    Failed("Auth") =>
        /\ pc \in {"done", "idle"}
        /\ Count("Validate") = 0
        /\ Count("Serve") = 0
        /\ ~ret.err.isNil
        /\ ~GetAuthError(ret.err).isNil
        /\ GetValidationErrors(ret.err).isNil
        /\ GetServeError(ret.err).isNil
        /\ pc = "done" => GetAuthError(ret.err).Err = AuthReturn(arr.Auth, message)

C1_Witness ==
    /\ pc = "done"
    /\ Failed("Auth")
    /\ Configured("Validate")
    /\ Configured("Serve")
    /\ ~ValidatorExec(validator, message).isNil

\* C2: when Auth passes or is absent and the validator returns a non-nil
\* ValidationErrors, Exec returns exactly that object as the validation error
\* of the envelope and Serve has not been invoked.
C2_ValidateShortCircuit ==
    (~Failed("Auth") /\ Failed("Validate")) =>
        /\ pc \in {"done", "idle"}
        /\ Count("Serve") = 0
        /\ ~vret.isNil
        /\ GetValidationErrors(ret.err) = vret
        /\ GetAuthError(ret.err).isNil
        /\ GetServeError(ret.err).isNil
        /\ pc = "done" => vret = ValidatorExec(validator, message)

C2_Witness ==
    /\ pc = "done"
    /\ Invoked("Auth")
    /\ Failed("Validate")
    /\ Configured("Serve")
    /\ Len(vret.FieldErrors) > 0

\* C3: the envelope Exec returns has at most one error class populated, and
\* none when every invoked stage passed.
C3_AtMostOneErrorClass ==
    pc = "done" =>
        /\ Cardinality(Populated(ret.err)) <= 1
        /\ ~AnyFailed => Populated(ret.err) = {}

C3_Witness ==
    /\ pc = "done"
    /\ Populated(ret.err) = {"Serve"}
    /\ Invoked("Auth")
    /\ Invoked("Validate")

\* C4: Exec never returns an error together with a non-zero payload: whenever
\* the returned error is non-nil the payload is the zero value of U.
C4_NoPayloadWithError ==
    (pc = "done" /\ ~ret.err.isNil) => ret.res = ZeroU

\* C5: within one Exec the stages are invoked in the order Auth, Validate,
\* Serve, each at most once, only configured stages are invoked, a stage is
\* invoked only after every configured earlier stage returned without error,
\* and the Exec ends completed (every configured stage ran, no error) or
\* failed at exactly one stage, the last one invoked.
C5_StageOrder ==
    /\ \A i, j \in 1..Len(calls) :
          i < j => StageNo(calls[i].stage) < StageNo(calls[j].stage)
    /\ \A i \in 1..Len(calls) : calls[i].failed => i = Len(calls)
    /\ pc # "idle" =>
          \A i \in 1..Len(calls) :
             /\ Configured(calls[i].stage)
             /\ \A n \in 1..3 :
                   (n < StageNo(calls[i].stage) /\ Configured(Stages[n])) =>
                       \E j \in 1..(i - 1) :
                          calls[j].stage = Stages[n] /\ ~calls[j].failed
    /\ pc = "done" =>
          \/ /\ ret.err.isNil
             /\ ~AnyFailed
             /\ \A n \in 1..3 : Configured(Stages[n]) => Invoked(Stages[n])
          \/ /\ ~ret.err.isNil
             /\ Len(calls) > 0
             /\ calls[Len(calls)].failed
             /\ Populated(ret.err) = {calls[Len(calls)].stage}

C5_Witness ==
    /\ pc = "done"
    /\ Len(calls) = 3
    /\ calls[3].failed

\* C6: a stage that was never configured is skipped without any error: it is
\* not invoked, its error class stays empty, the configured stages still run
\* in order until one fails, and an Arrangement with no stage returns the zero
\* payload and no error.
C6_UnsetStagesPass ==
    pc = "done" =>
        /\ \A n \in 1..3 :
              ~Configured(Stages[n]) =>
                  /\ ~Invoked(Stages[n])
                  /\ Stages[n] \notin Populated(ret.err)
        /\ \A n \in 1..3 :
              (Configured(Stages[n]) /\ \A k \in 1..(n - 1) : ~Failed(Stages[k])) =>
                  Invoked(Stages[n])
        /\ arr = Arrange => ret = [res |-> ZeroU, err |-> NilError]

C6_Witness ==
    /\ pc = "done"
    /\ arr = Arrange
    /\ ret.err.isNil

\* C7: when Auth returns nil, the validator returns nil and Serve returns
\* (v, nil), Exec returns v and a nil error.
C7_SuccessPayload ==
    (pc = "done" /\ Invoked("Serve") /\ ~AnyFailed) =>
        /\ ret.res = ServeReturn(arr.Serve, message).val
        /\ ret.res = calls[Len(calls)].val
        /\ ret.err.isNil

C7_Witness ==
    /\ pc = "done"
    /\ Len(calls) = 3
    /\ ~AnyFailed
    /\ ret.res # ZeroU

-----------------------------------------------------------------------------
(* Claims about the validator, checked under SpecV *)

\* the mask the validator was built with contains the path, in canonical form
MaskHas(path) ==
    ~validator.paths.isNil /\ NormalizePath(path) \in validator.paths.keys

\* a declaration that is mask-conditioned while the mask lacks its path
Skipped(f) == f.condition = InMask /\ ~MaskHas(f.path)

ZeroValues == {NilValue, StrVal(""), IntVal("0")}

Range(sq) == {sq[i] : i \in 1..Len(sq)}

\* the policy of the first fault an Exec records on a path: the custom
\* function runs first, then the declarations in order
CustomAddsAt(path) ==
    /\ validator.customValidation # NilFn
    /\ \E a \in Range(CustomAdds(validator.customValidation, message)) : a.path = path
FirstFaultPolicy(path) ==
    IF CustomAddsAt(path) THEN Custom
    ELSE LET failing == {i \in 1..Len(validator.fields) :
                            /\ validator.fields[i].path = path
                            /\ FieldValidate(validator.fields[i]) # NoErr}
         IN  validator.fields[CHOOSE i \in failing : \A j \in failing : i <= j].policy

\* C8: a mask-conditioned declaration (NonZero, NotEqualTo or MustEqual) whose
\* path is not in the mask, or that was declared without any mask, produces no
\* fault whatever its value and target are: its Validate passes, and Exec
\* returns what it returns for the validator without these declarations.
C8_MaskConditionedSkipped ==
    /\ \A i \in 1..Len(validator.fields) :
          Skipped(validator.fields[i]) => FieldValidate(validator.fields[i]) = NoErr
    /\ pc = "vdone" =>
          vret = ValidatorExec(
                    [validator EXCEPT !.fields = SelectSeq(@, LAMBDA f : ~Skipped(f))],
                    message)

C8_Witness ==
    /\ pc = "vdone"
    /\ ~validator.paths.isNil
    /\ \E i \in 1..Len(validator.fields) :
          /\ Skipped(validator.fields[i])
          /\ validator.fields[i].policy = MustEqual
          /\ validator.fields[i].value # validator.fields[i].cmpTo
    /\ \E i \in 1..Len(validator.fields) :
          /\ ~Skipped(validator.fields[i])
          /\ validator.fields[i].condition = InMask
          /\ FieldValidate(validator.fields[i]) # NoErr

\* C9 as stated: every AssertNonZero declaration with an absent or default
\* value has a fault in the aggregate at exactly its path with policy NonZero.
C9_NonZeroFaultHasPolicyNonZero ==
    pc = "vdone" =>
        \A i \in 1..Len(validator.fields) :
           LET f == validator.fields[i]
           IN  (f.policy = NonZero /\ f.condition = Always /\ f.value \in ZeroValues) =>
                  /\ ~vret.isNil
                  /\ \E k \in 1..Len(vret.FieldErrors) :
                        /\ vret.FieldErrors[k].Path = f.path
                        /\ vret.FieldErrors[k].Policy = NonZero

\* C9 amended: every AssertNonZero declaration with an absent or default value
\* has exactly one fault in the aggregate at exactly its path, whose causes
\* include the zero-value failure of that declaration; the policy of the fault
\* is the one of the first fault recorded on the path, which is NonZero unless
\* the custom function or an earlier failing declaration recorded the path.
C9_NonZeroFaultAtPath ==
    pc = "vdone" =>
        \A i \in 1..Len(validator.fields) :
           LET f == validator.fields[i]
               at == {k \in 1..Len(vret.FieldErrors) : vret.FieldErrors[k].Path = f.path}
           IN  (f.policy = NonZero /\ f.condition = Always /\ f.value \in ZeroValues) =>
                  /\ ~vret.isNil
                  /\ Cardinality(at) = 1
                  /\ \A k \in at :
                        /\ Leaf(ErrFieldMustNotBeZeroFailed, f.path, f.value, NilValue)
                              \in Range(vret.FieldErrors[k].Err)
                        /\ vret.FieldErrors[k].Policy = FirstFaultPolicy(f.path)
                        /\ (/\ ~CustomAddsAt(f.path)
                            /\ \A j \in 1..(i - 1) :
                                  validator.fields[j].path = f.path =>
                                      \/ FieldValidate(validator.fields[j]) = NoErr
                                      \/ validator.fields[j].policy = NonZero)
                           => vret.FieldErrors[k].Policy = NonZero

C9_Witness ==
    /\ pc = "vdone"
    /\ CustomAddsAt(PathId)
    /\ \E i \in 1..Len(validator.fields) :
          /\ validator.fields[i].path = PathId
          /\ validator.fields[i].policy = NonZero
          /\ validator.fields[i].condition = Always
          /\ validator.fields[i].value = NilValue
    /\ \E i \in 1..Len(validator.fields) :
          /\ validator.fields[i].path = PathFirstName
          /\ validator.fields[i].policy = NonZero
          /\ validator.fields[i].condition = Always
          /\ validator.fields[i].value = StrVal("")

-----------------------------------------------------------------------------
(* Claims about ValidationErrors, checked under SpecAgg *)

\* the causes handed in for a path, joined in the order they were handed in
RECURSIVE CausesFor(_, _)
CausesFor(path, n) ==
    IF n = 0 THEN NoErr
    ELSE CausesFor(path, n - 1) \o (IF added[n].path = path THEN added[n].err ELSE NoErr)

\* C10: after any sequence of AddFieldErr and addFieldErr calls on a
\* ValidationErrors made by NewValidationErrors, the list holds exactly one
\* entry per path that was faulted and never two for a path, the index maps
\* each path to its entry, and the cause of an entry is the join of all the
\* causes handed in for its path: a repeated path adds no entry.
C10_OneEntryPerPath ==
    /\ \A i, j \in 1..Len(errs.FieldErrors) :
          errs.FieldErrors[i].Path = errs.FieldErrors[j].Path => i = j
    /\ {errs.FieldErrors[i].Path : i \in 1..Len(errs.FieldErrors)}
          = {added[n].path : n \in 1..Len(added)}
    /\ DOMAIN errs.idx = {added[n].path : n \in 1..Len(added)}
    /\ \A p \in DOMAIN errs.idx :
          /\ errs.idx[p] \in 1..Len(errs.FieldErrors)
          /\ errs.FieldErrors[errs.idx[p]].Path = p
          /\ errs.FieldErrors[errs.idx[p]].Err = CausesFor(p, Len(added))

C10_Witness ==
    /\ Len(added) = 3
    /\ Len(errs.FieldErrors) = 1
    /\ Len(errs.FieldErrors[1].Err) = 3
    /\ errs.FieldErrors[1].Policy = NonZero
    /\ \E c \in Range(errs.FieldErrors[1].Err) : c.sentinel = ErrFieldMustNotEqualFailed
    /\ \E c \in Range(errs.FieldErrors[1].Err) : c = CustomCause("user id cannot be abc123")

-----------------------------------------------------------------------------
(* Claims about incomparable equality assertions, checked under SpecV *)

\* an equality declaration whose value and target differ in concrete type
Incomparable(f) ==
    f.policy \in {NotEqualTo, MustEqual} /\ f.value.type # f.cmpTo.type

NotComparableLeaf(f) ==
    Leaf(ErrFieldComparisonFailedNotComparable, f.path, TypeOf(f.value), TypeOf(f.cmpTo))

\* the result of Exec carries the incomparable-types failure of declaration f
ConfigFaultReported(f) ==
    /\ ~vret.isNil
    /\ \E k \in 1..Len(vret.FieldErrors) :
          /\ vret.FieldErrors[k].Path = f.path
          /\ NotComparableLeaf(f) \in Range(vret.FieldErrors[k].Err)

\* C11 as stated: every equality assertion, the WhenInMask variants included,
\* whose value and target differ in concrete type has its incomparable-types
\* failure in the result of Exec.
C11_EveryIncomparableReported ==
    pc = "vdone" =>
        \A i \in 1..Len(validator.fields) :
           Incomparable(validator.fields[i]) => ConfigFaultReported(validator.fields[i])

\* C11 amended: every equality assertion that applies (an unconditional one,
\* or a WhenInMask one whose path is in the mask) and whose value and target
\* differ in concrete type has its incomparable-types failure in the result of
\* Exec, whatever the two values are; a WhenInMask one whose path is not in
\* the mask reports nothing.
C11_ApplicableIncomparableReported ==
    /\ \A i \in 1..Len(validator.fields) :
          LET f == validator.fields[i]
          IN  Incomparable(f) =>
                 FieldValidate(f) = (IF Skipped(f) THEN NoErr ELSE <<NotComparableLeaf(f)>>)
    /\ pc = "vdone" =>
          \A i \in 1..Len(validator.fields) :
             LET f == validator.fields[i]
             IN  (Incomparable(f) /\ ~Skipped(f)) => ConfigFaultReported(f)

C11_Witness ==
    /\ pc = "vdone"
    /\ \E i \in 1..Len(validator.fields) :
          /\ Incomparable(validator.fields[i])
          /\ validator.fields[i].policy = NotEqualTo
          /\ validator.fields[i].condition = InMask
          /\ ~Skipped(validator.fields[i])
    /\ \E i \in 1..Len(validator.fields) :
          /\ Incomparable(validator.fields[i])
          /\ validator.fields[i].policy = MustEqual
          /\ validator.fields[i].condition = Always

\* C12 as stated: an incomparable equality assertion is not recorded as a
\* path-scoped entry of the FieldErrors list of the aggregate.
C12_ConfigFaultNotAFieldError ==
    pc = "vdone" =>
        \A i \in 1..Len(validator.fields) :
           (Incomparable(validator.fields[i]) /\ ~Skipped(validator.fields[i]))
              => ~ConfigFaultReported(validator.fields[i])

\* C13: an incomparable equality assertion does not stop the loop: every
\* declaration before and after it is still evaluated, and the failure of
\* each failing one is among the causes of the entry at its path.
C13_OthersStillEvaluated ==
    pc = "vdone" =>
        \A i \in 1..Len(validator.fields) :
           (Incomparable(validator.fields[i]) /\ ~Skipped(validator.fields[i])) =>
              \A j \in 1..Len(validator.fields) :
                 (j # i /\ FieldValidate(validator.fields[j]) # NoErr) =>
                    /\ ~vret.isNil
                    /\ \E k \in 1..Len(vret.FieldErrors) :
                          /\ vret.FieldErrors[k].Path = validator.fields[j].path
                          /\ FieldValidate(validator.fields[j])[1]
                                \in Range(vret.FieldErrors[k].Err)

C13_Witness ==
    /\ pc = "vdone"
    /\ Len(validator.fields) = 2
    /\ Incomparable(validator.fields[1])
    /\ ~Skipped(validator.fields[1])
    /\ validator.fields[2].policy = NonZero
    /\ validator.fields[2].path # validator.fields[1].path
    /\ FieldValidate(validator.fields[2]) # NoErr
    /\ Len(vret.FieldErrors) = 2

-----------------------------------------------------------------------------
(* Rendering: Policy.String, error strings, FieldError.Error and          *)
(* ValidationErrors.Error.  A string is the sequence of its pieces.        *)

PolicyString(p) ==
    CASE p = NonZero -> "non-zero"
      [] p = MustEqual -> "must equal"
      [] p = NotEqualTo -> "must not equal"
      [] p = Custom -> "custom evaluation"
      [] OTHER -> "unknown policy"

\* %v of a value: the dynamic type is not printed
ValueString(i) == IF i.type = "nil" THEN "<nil>" ELSE i.v

\* the text of one cause: the built-in ones print the field, the value(s) and
\* the sentinel; a caller's cause prints its own text
LeafString(l) ==
    IF l.sentinel \in {ErrFieldComparisonFailedNotComparable, ErrFieldMustEqualFailed}
    THEN <<"field: ">> \o l.id \o <<", value: ", ValueString(l.a),
                                    ", compareTo: ", ValueString(l.b), ": ", l.sentinel>>
    ELSE IF l.sentinel \in {ErrFieldMustNotEqualFailed, ErrFieldMustNotBeZeroFailed}
    THEN <<"field: ">> \o l.id \o <<", value: ", ValueString(l.a), ": ", l.sentinel>>
    ELSE <<l.sentinel>>

\* Error() of a joined or wrapped error: the causes with sep between them
RECURSIVE ErrorString(_, _)
ErrorString(err, sep) ==
    IF err = NoErr THEN << >>
    ELSE IF Len(err) = 1 THEN LeafString(err[1])
    ELSE LeafString(err[1]) \o <<sep>> \o ErrorString(Tail(err), sep)

FieldErrorError(f) ==
    IF f.Err # NoErr
    THEN f.Path \o <<" failed ", PolicyString(f.Policy), " policy: ">> \o ErrorString(f.Err, "\n")
    ELSE << >>

RECURSIVE FieldErrorLines(_, _)
FieldErrorLines(fes, k) ==
    IF k > Len(fes) THEN << >>
    ELSE FieldErrorError(fes[k]) \o <<"\n">> \o FieldErrorLines(fes, k + 1)

ValidationErrorsError(v) ==
    IF v.isNil THEN << >>
    ELSE (IF v.CustomValidationError # NoErr
          THEN ErrorString(v.CustomValidationError, ": ") \o <<"\n">>
          ELSE << >>)
         \o FieldErrorLines(v.FieldErrors, 1)

-----------------------------------------------------------------------------
(* DefaultMessageValidator.Exec step by step, called again and again on a  *)
(* validator whose custom function is set by CustomValidation calls         *)

MaxExecs == 2
MaxCustomCalls == 2

\* validators built by the Assert methods; no custom function yet
XValidators ==
    {ForMessage(<< >>),
     AssertNonZero(ForMessage(<< >>), PathId, StrVal("bob")),
     AssertNonZero(ForMessage(<< >>), PathId, StrVal("")),
     AssertNotEqualTo(AssertNonZero(ForMessage(<< >>), PathId, StrVal("")),
                      PathId, StrVal("bob"), StrVal("bob")),
     AssertEqualTo(AssertNonZero(ForMessage(<< >>), PathFirstName, StrVal("")),
                   PathId, NilValue, StrVal("bob")),
     AssertNonZero(AssertNonZero(ForMessage(<< >>), PathFirstName, NilValue),
                   PathId, StrVal("")),
     AssertNonZeroWhenInMask(ForMessage(<< >>), PathId, StrVal("")),
     AssertNonZeroWhenInMask(
        AssertNonZero(ForMessage(<<PathFirstNameCamel>>), PathId, StrVal("")),
        PathFirstName, StrVal(""))}

VCall(ev, fn, i, collector) == [ev |-> ev, fn |-> fn, i |-> i, collector |-> collector]

XCustomValidation ==
    /\ pc = "idle"
    /\ cvlog.n < MaxCustomCalls
    /\ \E act \in XCustomFns \cup {NilFn} :
          /\ validator' = CustomValidation(validator, act)
          /\ cvlog' = [act |-> act, prev |-> cvlog.act, fields |-> validator.fields,
                        n |-> cvlog.n + 1]
    /\ first' = NoExecs
    /\ UNCHANGED <<arr, pc, message, res, serr, ret, calls, vret, errs, added,
                   xi, vcalls, maskArg, yvars>>

\* an Exec that collects into the ValidationErrors of the call before
XExecKeepsErrs ==
    /\ pc = "idle"
    /\ \E m \in Messages :
          /\ first[m].n < MaxExecs
          /\ message' = m
    /\ pc' = "xcustom"
    /\ vcalls' = << >>
    /\ UNCHANGED <<validator, arr, res, serr, ret, calls, vret, errs, added,
                   xi, first, cvlog, maskArg, yvars>>

\* Exec is entered: errs := NewValidationErrors()
XExec ==
    /\ pc = "idle"
    /\ \E m \in Messages :
          /\ first[m].n < MaxExecs
          /\ message' = m
    /\ errs' = NewValidationErrors
    /\ pc' = "xcustom"
    /\ vcalls' = << >>
    /\ UNCHANGED <<validator, arr, res, serr, ret, calls, vret, added,
                   xi, first, cvlog, maskArg, yvars>>

\* a first step that invokes the custom function a second time
XCustomTwice ==
    /\ pc = "xcustom"
    /\ IF validator.customValidation # NilFn
       THEN /\ vcalls' = vcalls \o
                   <<VCall("custom", validator.customValidation, 0, errs),
                     VCall("custom", validator.customValidation, 0,
                           RunCustom(validator, message, errs))>>
            /\ errs' = RunCustom(validator, message, RunCustom(validator, message, errs))
       ELSE UNCHANGED <<vcalls, errs>>
    /\ xi' = 1
    /\ pc' = "xfields"
    /\ UNCHANGED <<validator, arr, message, res, serr, ret, calls, vret, added,
                   first, cvlog, maskArg, yvars>>

\* a first step that returns as soon as the custom function fails
XCustomStopsOnError ==
    /\ pc = "xcustom"
    /\ IF validator.customValidation # NilFn
       THEN /\ vcalls' = Append(vcalls, VCall("custom", validator.customValidation, 0, errs))
            /\ errs' = RunCustom(validator, message, errs)
       ELSE UNCHANGED <<vcalls, errs>>
    /\ xi' = (IF errs'.CustomValidationError # NoErr THEN Len(validator.fields) + 1 ELSE 1)
    /\ pc' = "xfields"
    /\ UNCHANGED <<validator, arr, message, res, serr, ret, calls, vret, added,
                   first, cvlog, maskArg, yvars>>

\* the custom validation function, if set, is invoked on the collector
XCustom ==
    /\ pc = "xcustom"
    /\ IF validator.customValidation # NilFn
       THEN /\ vcalls' = Append(vcalls, VCall("custom", validator.customValidation, 0, errs))
            /\ errs' = RunCustom(validator, message, errs)
       ELSE UNCHANGED <<vcalls, errs>>
    /\ xi' = 1
    /\ pc' = "xfields"
    /\ UNCHANGED <<validator, arr, message, res, serr, ret, calls, vret, added,
                   first, cvlog, maskArg, yvars>>

\* a round of the loop that reads the field again from the message, which
\* holds it in message m1 only
XFieldReadsMessage ==
    /\ pc = "xfields"
    /\ xi <= Len(validator.fields)
    /\ LET f == IF message = "m1" THEN validator.fields[xi]
                ELSE [validator.fields[xi] EXCEPT !.value = NilValue, !.zero = TRUE]
           err == FieldValidate(f)
       IN  /\ vcalls' = Append(vcalls, VCall("field", NilFn, xi, NilErrs))
           /\ errs' = (IF err # NoErr THEN addFieldErr(errs, f, err) ELSE errs)
    /\ xi' = xi + 1
    /\ UNCHANGED <<validator, arr, pc, message, res, serr, ret, calls, vret, added,
                   first, cvlog, maskArg, yvars>>

\* one round of the loop over s.fields
XField ==
    /\ pc = "xfields"
    /\ xi <= Len(validator.fields)
    /\ LET err == FieldValidate(validator.fields[xi])
       IN  /\ vcalls' = Append(vcalls, VCall("field", NilFn, xi, NilErrs))
           /\ errs' = (IF err # NoErr THEN addFieldErr(errs, validator.fields[xi], err)
                       ELSE errs)
    /\ xi' = xi + 1
    /\ UNCHANGED <<validator, arr, pc, message, res, serr, ret, calls, vret, added,
                   first, cvlog, maskArg, yvars>>

\* the loop is over: Exec returns errs if it has errors, else nil
XReturn ==
    /\ pc = "xfields"
    /\ xi > Len(validator.fields)
    /\ vret' = (IF HasErrors(errs) THEN errs ELSE NilErrs)
    /\ first' = [first EXCEPT ![message] =
                    [n |-> @.n + 1,
                     out |-> IF @.n = 0 THEN ValidationErrorsError(vret') ELSE @.out,
                     agg |-> IF @.n = 0 THEN vret' ELSE @.agg]]
    /\ pc' = "vdone"
    /\ UNCHANGED <<validator, arr, message, res, serr, ret, calls, errs, added,
                   xi, vcalls, cvlog, maskArg, yvars>>

\* control is back with the caller, which drops the result
XDone ==
    /\ pc = "vdone"
    /\ pc' = "idle"
    /\ vret' = NilErrs
    /\ vcalls' = << >>
    /\ UNCHANGED <<validator, arr, message, res, serr, ret, calls, errs, added,
                   xi, first, cvlog, maskArg, yvars>>

InitX ==
    /\ validator \in XValidators
    /\ arr = Arrange
    /\ pc = "idle"
    /\ message = "m1"
    /\ res = ZeroU
    /\ serr = NilError
    /\ ret = NoRet
    /\ calls = << >>
    /\ vret = NilErrs
    /\ errs = NewValidationErrors
    /\ added = << >>
    /\ xi = 1
    /\ vcalls = << >>
    /\ first = NoExecs
    /\ cvlog = NoCustomValidation
    /\ ex = NoFrames
    /\ heap = EmptyHeap
    /\ fp = newFieldProcessor
    /\ fcall = NoCall
    /\ maskArg = (IF validator.paths.isNil THEN << >> ELSE <<PathFirstNameCamel>>)

NextX ==
    \/ XCustomValidation
    \/ XExec
    \/ XCustom
    \/ XField
    \/ XReturn
    \/ XDone

SpecX == InitX /\ [][NextX]_vars

-----------------------------------------------------------------------------
(* Claims about repeated and stepwise Exec, checked under SpecX *)

\* C14: for a validator that is not changed between the calls and the same
\* message, every Exec returns an aggregate that renders the error string the
\* first Exec rendered: the faults of an earlier call do not accumulate into
\* a later one.
C14_ExecIdempotent ==
    pc = "vdone" => ValidationErrorsError(vret) = first[message].out

C14_Witness ==
    /\ pc = "vdone"
    /\ first[message].n = 2
    /\ ~vret.isNil
    /\ vret.CustomValidationError = NoErr
    /\ Len(vret.FieldErrors) = 1
    /\ Len(vret.FieldErrors[1].Err) = 2
    /\ vret.FieldErrors[1].Policy = Custom

\* the positions in the spy log at which the custom function was invoked
CustomEvents == {k \in 1..Len(vcalls) : vcalls[k].ev = "custom"}

\* C17: an Exec of a validator with a custom function invokes that function
\* exactly once, before the first declared field is validated, and hands it a
\* collector without any fault; without a custom function none is invoked.
C17_CustomOnceBeforeFields ==
    /\ Cardinality(CustomEvents) <= 1
    /\ \A k \in CustomEvents :
          /\ k = 1
          /\ vcalls[k].fn = validator.customValidation
          /\ vcalls[k].collector = NewValidationErrors
    /\ pc \in {"xfields", "vdone"} =>
          (CustomEvents = {1} <=> validator.customValidation # NilFn)
    /\ pc = "vdone" =>
          /\ Len(vcalls) = Cardinality(CustomEvents) + Len(validator.fields)
          /\ \A k \in 1..Len(vcalls) :
                vcalls[k].ev = "field" => vcalls[k].i = k - Cardinality(CustomEvents)

C17_Witness ==
    /\ pc = "vdone"
    /\ first[message].n = 2
    /\ validator.customValidation = "cvSelf"
    /\ Len(validator.fields) = 2
    /\ Len(vcalls) = 3
    /\ Len(vret.FieldErrors) = 2

\* C19: after any number of CustomValidation calls the validator holds the
\* function of the last call and the fields it had before: an Exec invokes
\* that function and no earlier one, and none when the last call set nil.
C19_LastCustomValidationWins ==
    /\ cvlog.n > 0 =>
          /\ validator.customValidation = cvlog.act
          /\ validator.fields = cvlog.fields
    /\ \A k \in CustomEvents : vcalls[k].fn = cvlog.act
    /\ pc = "vdone" => (CustomEvents # {} <=> cvlog.act # NilFn)

C19_Witness ==
    /\ pc = "vdone"
    /\ cvlog.n = 2
    /\ cvlog.prev = "cvIo"
    /\ cvlog.act = "cvField"
    /\ Len(validator.fields) = 2
    /\ CustomEvents = {1}
    /\ ~vret.isNil
    /\ vret.CustomValidationError = NoErr

-----------------------------------------------------------------------------
(* Claims about the list Exec returns, checked under SpecV *)

\* the paths faulted in an Exec, in the order the faults are raised: the
\* additions of the custom function, then the failing declarations
CustomAddPaths ==
    IF validator.customValidation = NilFn THEN << >>
    ELSE LET adds == CustomAdds(validator.customValidation, message)
         IN  [n \in 1..Len(adds) |-> adds[n].path]

FailingDeclPaths ==
    LET failing == SelectSeq(validator.fields, LAMBDA f : FieldValidate(f) # NoErr)
    IN  [n \in 1..Len(failing) |-> failing[n].path]

RECURSIVE FirstOccurrences(_)
FirstOccurrences(sq) ==
    IF sq = << >> THEN << >>
    ELSE LET front == FirstOccurrences(SubSeq(sq, 1, Len(sq) - 1))
             last == sq[Len(sq)]
         IN  IF last \in Range(front) THEN front ELSE Append(front, last)

\* C18: the entries of the returned list are in the order in which their
\* paths were first faulted: the paths the custom function added, then the
\* paths first faulted by a declaration in the order of the builder calls,
\* whatever the message and however often Exec is called.
C18_DeclarationOrderKept ==
    pc = "vdone" =>
        LET expected == FirstOccurrences(CustomAddPaths \o FailingDeclPaths)
        IN  IF vret.isNil THEN expected = << >>
            ELSE [k \in 1..Len(vret.FieldErrors) |-> vret.FieldErrors[k].Path] = expected

C18_Witness ==
    /\ pc = "vdone"
    /\ CustomAddPaths = << >>
    /\ Len(validator.fields) = 2
    /\ validator.fields[1].path = PathFirstName
    /\ validator.fields[2].path = PathId
    /\ ~vret.isNil
    /\ Len(vret.FieldErrors) = 2
    /\ vret.FieldErrors[1].Path = PathFirstName

\* a fault exists: a declared policy failed, the custom function added a
\* field fault, or it returned an error that is not the collector
FaultExists ==
    \/ \E i \in 1..Len(validator.fields) : FieldValidate(validator.fields[i]) # NoErr
    \/ /\ validator.customValidation # NilFn
       /\ \/ CustomAdds(validator.customValidation, message) # << >>
          \/ CustomRet(validator.customValidation, message) \notin {"nil", "errs"}

\* C20: Exec returns a non-nil aggregate exactly when a fault exists, and nil
\* otherwise; an aggregate it returns holds a field fault or a custom error.
C20_NonNilIffFault ==
    pc = "vdone" =>
        /\ ~vret.isNil <=> FaultExists
        /\ ~vret.isNil =>
              Len(vret.FieldErrors) > 0 \/ vret.CustomValidationError # NoErr

C20_Witness ==
    /\ pc = "vdone"
    /\ ~vret.isNil
    /\ vret.FieldErrors = << >>
    /\ vret.CustomValidationError # NoErr
    /\ Len(validator.fields) = 2

-----------------------------------------------------------------------------
(* The update-user scenario: three declarations on a validator that was    *)
(* built with a mask naming first_name and last_name                        *)

PathUserId == <<"u", "s", "e", "r", ".", "i", "d">>
PathUserLastName == <<"u", "s", "e", "r", ".", "l", "a", "s", "t", "_", "n", "a", "m", "e">>
PathUserFirstName == <<"u", "s", "e", "r", ".", "f", "i", "r", "s", "t", "_", "n", "a", "m", "e">>

\* the mask spelled with the bare field names, with the full snake_case
\* paths and with the full camelCase paths
UserMaskBare == <<<<"f", "i", "r", "s", "t", "_", "n", "a", "m", "e">>, <<"l", "a", "s", "t", "_", "n", "a", "m", "e">>>>
UserMaskSnake == <<PathUserFirstName, PathUserLastName>>
UserMaskCamel == <<<<"u", "s", "e", "r", ".", "f", "i", "r", "s", "t", "N", "a", "m", "e">>, <<"u", "s", "e", "r", ".", "l", "a", "s", "t", "N", "a", "m", "e">>>>
UserMasks == {UserMaskBare, UserMaskSnake, UserMaskCamel}

Declared(path) == \E i \in 1..Len(validator.fields) : validator.fields[i].path = path

DeclareUserId ==
    /\ pc = "idle"
    /\ ~Declared(PathUserId)
    /\ validator' = AssertNonZero(validator, PathUserId, StrVal(""))
    /\ UNCHANGED <<arr, pc, message, res, serr, ret, calls, vret, errs, added, xvars>>

DeclareUserLastName ==
    /\ pc = "idle"
    /\ ~Declared(PathUserLastName)
    /\ validator' = AssertNonZeroWhenInMask(validator, PathUserLastName, StrVal(""))
    /\ UNCHANGED <<arr, pc, message, res, serr, ret, calls, vret, errs, added, xvars>>

DeclareUserFirstName ==
    /\ pc = "idle"
    /\ ~Declared(PathUserFirstName)
    /\ validator' = AssertNonZeroWhenInMask(validator, PathUserFirstName, StrVal("bob"))
    /\ UNCHANGED <<arr, pc, message, res, serr, ret, calls, vret, errs, added, xvars>>

InitE ==
    /\ \E fieldMask \in UserMasks :
          /\ validator = ForMessage(fieldMask)
          /\ maskArg = fieldMask
    /\ arr = Arrange
    /\ pc = "idle"
    /\ message = "m1"
    /\ res = ZeroU
    /\ serr = NilError
    /\ ret = NoRet
    /\ calls = << >>
    /\ vret = NilErrs
    /\ errs = NewValidationErrors
    /\ added = << >>
    /\ xi = 1
    /\ vcalls = << >>
    /\ first = NoExecs
    /\ cvlog = NoCustomValidation
    /\ ex = NoFrames
    /\ heap = EmptyHeap
    /\ fp = newFieldProcessor
    /\ fcall = NoCall

NextE ==
    \/ DeclareUserId
    \/ DeclareUserLastName
    \/ DeclareUserFirstName
    \/ CallValidatorExec
    \/ ValidatorReturn

SpecE == InitE /\ [][NextE]_vars

AllThreeDeclared ==
    Declared(PathUserId) /\ Declared(PathUserLastName) /\ Declared(PathUserFirstName)

FaultedPathSet ==
    IF vret.isNil THEN {} ELSE {vret.FieldErrors[k].Path : k \in 1..Len(vret.FieldErrors)}

\* C15 as stated: with the mask ["first_name", "last_name"] the three
\* declarations give exactly the faults at user.id and user.last_name.
C15_BareMaskTwoFaults ==
    (pc = "vdone" /\ AllThreeDeclared /\ maskArg = UserMaskBare) =>
        FaultedPathSet = {PathUserId, PathUserLastName}

\* C15 amended: with the mask naming the full paths user.first_name and
\* user.last_name, in either spelling, the three declarations give exactly
\* two faults, one at user.id and one at user.last_name, both of policy
\* NonZero, and none at user.first_name; with the bare names first_name and
\* last_name the mask holds no declared path and user.id is the only fault.
C15_FullPathMaskTwoFaults ==
    (pc = "vdone" /\ AllThreeDeclared) =>
        /\ ~vret.isNil
        /\ vret.CustomValidationError = NoErr
        /\ \A k \in 1..Len(vret.FieldErrors) :
              /\ vret.FieldErrors[k].Policy = NonZero
              /\ vret.FieldErrors[k].Err =
                    <<Leaf(ErrFieldMustNotBeZeroFailed, vret.FieldErrors[k].Path,
                           StrVal(""), NilValue)>>
        /\ IF maskArg = UserMaskBare
           THEN /\ Len(vret.FieldErrors) = 1
                /\ FaultedPathSet = {PathUserId}
           ELSE /\ Len(vret.FieldErrors) = 2
                /\ FaultedPathSet = {PathUserId, PathUserLastName}

C15_Witness ==
    /\ pc = "vdone"
    /\ AllThreeDeclared
    /\ maskArg = UserMaskSnake
    /\ Len(vret.FieldErrors) = 2
    /\ vret.FieldErrors[1].Path = PathUserId
    /\ vret.FieldErrors[2].Path = PathUserLastName

-----------------------------------------------------------------------------
(* Mask membership on spelled paths: a mask is handed to ForMessage, then  *)
(* one path is declared with a zero value under AssertNonZeroWhenInMask     *)

MaxWords == 2
MaxSegs == 2

\* a field path as a proto names it: segments of lower-case words, at most
\* one of the segments with more than one word
Words == {<<"a">>, <<"b">>}
SeqsUpTo(S, n) == UNION {[1..k -> S] : k \in 1..n}
PathShapes ==
    {x \in SeqsUpTo(SeqsUpTo(Words, MaxWords), MaxSegs) :
        Cardinality({s \in 1..Len(x) : Len(x[s]) > 1}) <= 1}

RECURSIVE JoinWith(_, _)
JoinWith(parts, sep) ==
    IF Len(parts) = 1 THEN parts[1]
    ELSE parts[1] \o sep \o JoinWith(Tail(parts), sep)

\* the snake_case spelling a caller declares and the camelCase spelling of a
\* wire mask
Capitalized(w) == <<ToUpper(w[1])>> \o Tail(w)
Snake(shape) ==
    JoinWith([s \in 1..Len(shape) |-> JoinWith(shape[s], <<"_">>)], <<".">>)
Camel(shape) ==
    JoinWith([s \in 1..Len(shape) |->
                 JoinWith([w \in 1..Len(shape[s]) |->
                              IF w = 1 THEN shape[s][w] ELSE Capitalized(shape[s][w])],
                          << >>)],
             <<".">>)

\* masks: none, one entry, or one entry behind an unrelated one
MaskShapes == {x \in PathShapes : Len(x) = 2 /\ x[1] = <<<<"a">>>>}
MaskEntries == {Snake(x) : x \in MaskShapes} \cup {Camel(x) : x \in MaskShapes}
SpelledMasks ==
    {<< >>} \cup {<<e>> : e \in MaskEntries} \cup {<<Snake(<<<<<<"b">>>>>>), e>> : e \in MaskEntries}

DeclareSpelled ==
    /\ pc = "idle"
    /\ validator.fields = << >>
    /\ \E x \in PathShapes :
          validator' = AssertNonZeroWhenInMask(validator, Snake(x), StrVal(""))
    /\ UNCHANGED <<arr, pc, message, res, serr, ret, calls, vret, errs, added, xvars>>

InitN ==
    /\ \E fieldMask \in SpelledMasks :
          /\ validator = ForMessage(fieldMask)
          /\ maskArg = fieldMask
    /\ arr = Arrange
    /\ pc = "idle"
    /\ message = "m1"
    /\ res = ZeroU
    /\ serr = NilError
    /\ ret = NoRet
    /\ calls = << >>
    /\ vret = NilErrs
    /\ errs = NewValidationErrors
    /\ added = << >>
    /\ xi = 1
    /\ vcalls = << >>
    /\ first = NoExecs
    /\ cvlog = NoCustomValidation
    /\ ex = NoFrames
    /\ heap = EmptyHeap
    /\ fp = newFieldProcessor
    /\ fcall = NoCall

NextN ==
    \/ DeclareSpelled
    \/ CallValidatorExec
    \/ ValidatorReturn

SpecN == InitN /\ [][NextN]_vars

\* the shape a snake_case spelling spells: split at the dots, then at the
\* underscores
RECURSIVE SplitAt(_, _)
SplitAt(sq, sep) ==
    IF \A i \in 1..Len(sq) : sq[i] # sep THEN <<sq>>
    ELSE LET at == CHOOSE i \in 1..Len(sq) :
                      sq[i] = sep /\ \A j \in 1..(i - 1) : sq[j] # sep
         IN  <<SubSeq(sq, 1, at - 1)>> \o SplitAt(SubSeq(sq, at + 1, Len(sq)), sep)

ShapeOf(path) ==
    LET segs == SplitAt(path, ".")
    IN  [s \in 1..Len(segs) |-> SplitAt(segs[s], "_")]

\* C16: the snake_case spelling of a path and its camelCase spelling
\* normalize to the same string, a WhenInMask declaration of the snake_case
\* path applies exactly when the mask holds one of the two spellings of the
\* full path, and NormalizePath applied twice gives what it gives applied once.
C16_OneCanonicalForm ==
    /\ \A e \in Range(maskArg) : NormalizePath(NormalizePath(e)) = NormalizePath(e)
    /\ \A i \in 1..Len(validator.fields) :
          LET f == validator.fields[i]
              x == ShapeOf(f.path)
          IN  /\ f.path = Snake(x)
              /\ NormalizePath(NormalizePath(f.path)) = NormalizePath(f.path)
              /\ f.pathNormalized = NormalizePath(f.path)
              /\ NormalizePath(Snake(x)) = NormalizePath(Camel(x))
              /\ NormalizePath(Camel(x)) = Camel(x)
              /\ (FieldValidate(f) # NoErr) <=>
                    (Snake(x) \in Range(maskArg) \/ Camel(x) \in Range(maskArg))
    /\ pc = "vdone" =>
          (~vret.isNil <=>
              \E i \in 1..Len(validator.fields) :
                 \E e \in Range(maskArg) :
                    NormalizePath(e) = NormalizePath(validator.fields[i].path))

C16_Witness ==
    /\ pc = "vdone"
    /\ ~vret.isNil
    /\ Len(maskArg) = 2
    /\ Len(validator.fields) = 1
    /\ LET x == ShapeOf(validator.fields[1].path)
       IN  /\ Len(x) = 2
           /\ Len(x[2]) = 2
           /\ Snake(x) # Camel(x)
           /\ maskArg[2] = Camel(x)
           /\ vret.FieldErrors[1].Path = Snake(x)

-----------------------------------------------------------------------------
(* Claims about the custom error, the message and merged faults, checked   *)
(* under SpecX                                                             *)

\* the running Exec's custom function returns an error that is not a field
\* fault: neither nil nor the collector
CustomReturnsNonFieldErr ==
    /\ validator.customValidation # NilFn
    /\ CustomRet(validator.customValidation, message) \notin {"nil", "errs"}

\* C21: an error the custom function returns is the one top-level custom
\* validation error of the aggregate: it adds no entry to the field-error
\* list and none of its causes is in an entry of a path, while the faults the
\* function added through the collector are entries of the list.
C21_CustomErrorKeptApart ==
    pc = "vdone" =>
        /\ IF CustomReturnsNonFieldErr
           THEN /\ ~vret.isNil
                /\ vret.CustomValidationError =
                      WrapCustomErr(CustomRet(validator.customValidation, message))
           ELSE vret.CustomValidationError = NoErr
        /\ Paths(vret) = FirstOccurrences(CustomAddPaths \o FailingDeclPaths)
        /\ \A k \in 1..Len(vret.FieldErrors) :
              \A c \in Range(vret.FieldErrors[k].Err) :
                 c \notin Range(vret.CustomValidationError)
        /\ validator.customValidation # NilFn =>
              \A a \in Range(CustomAdds(validator.customValidation, message)) :
                 \E k \in 1..Len(vret.FieldErrors) :
                    /\ vret.FieldErrors[k].Path = a.path
                    /\ vret.FieldErrors[k].Policy = Custom
                    /\ a.err[1] \in Range(vret.FieldErrors[k].Err)

C21_Witness ==
    /\ pc = "vdone"
    /\ validator.customValidation = "cvBoth"
    /\ vret.CustomValidationError # NoErr
    /\ Len(vret.FieldErrors) = 2
    /\ vret.FieldErrors[1].Policy = Custom
    /\ Len(vret.FieldErrors[1].Err) = 2

\* C23: without a custom function the aggregate of an Exec does not depend
\* on the message: it is the aggregate of the first Exec with any message.
C23_MessageNotRead ==
    (pc = "vdone" /\ validator.customValidation = NilFn) =>
        \A m \in Messages : first[m].n > 0 => first[m].agg = vret

C23_Witness ==
    /\ pc = "vdone"
    /\ validator.customValidation = NilFn
    /\ message = "m2"
    /\ first["m1"].n > 0
    /\ first["m2"].n > 0
    /\ ~vret.isNil
    /\ Len(vret.FieldErrors) = 2

\* what the first fault on a path recorded: the first addition of the custom
\* function on it, else its first failing declaration
FirstFaultEntry(path) ==
    IF CustomAddsAt(path)
    THEN LET adds == CustomAdds(validator.customValidation, message)
             a == adds[CHOOSE n \in 1..Len(adds) :
                          adds[n].path = path /\ \A o \in 1..(n - 1) : adds[o].path # path]
         IN  ApplyOptions([Path |-> path, Policy |-> Custom, Value |-> NilValue,
                           Expected |-> NilValue, Err |-> a.err], a.options, 1)
    ELSE LET failing == {i \in 1..Len(validator.fields) :
                            /\ validator.fields[i].path = path
                            /\ FieldValidate(validator.fields[i]) # NoErr}
             f == validator.fields[CHOOSE i \in failing : \A j \in failing : i <= j]
         IN  FieldErrorFromField(f, FieldValidate(f))

\* all the causes raised on a path in an Exec, in the order they are raised
RECURSIVE JoinAll(_)
JoinAll(errSeq) == IF errSeq = << >> THEN NoErr ELSE Head(errSeq) \o JoinAll(Tail(errSeq))

CausesRaisedAt(path) ==
    LET adds == IF validator.customValidation = NilFn THEN << >>
                ELSE SelectSeq(CustomAdds(validator.customValidation, message),
                               LAMBDA a : a.path = path)
        failing == SelectSeq(validator.fields,
                             LAMBDA f : f.path = path /\ FieldValidate(f) # NoErr)
    IN  JoinAll([n \in 1..Len(adds) |-> adds[n].err])
           \o JoinAll([n \in 1..Len(failing) |-> FieldValidate(failing[n])])

\* C29: an entry is at the position its path was first faulted at and has the
\* Policy, Value and Expected of that first fault, and its cause is the join
\* of all the causes raised on the path; a path the custom function faulted is
\* reported with policy Custom and without the value and target of a built-in
\* assertion that failed on it later.
C29_MergeKeepsFirstFault ==
    pc = "vdone" =>
        /\ Paths(vret) = FirstOccurrences(CustomAddPaths \o FailingDeclPaths)
        /\ \A k \in 1..Len(vret.FieldErrors) :
              LET e == vret.FieldErrors[k]
                  firstFault == FirstFaultEntry(e.Path)
              IN  /\ e.Policy = firstFault.Policy
                  /\ e.Value = firstFault.Value
                  /\ e.Expected = firstFault.Expected
                  /\ e.Err = CausesRaisedAt(e.Path)
                  /\ CustomAddsAt(e.Path) => e.Policy = Custom

C29_Witness ==
    /\ pc = "vdone"
    /\ validator.customValidation = "cvField"
    /\ Len(validator.fields) = 2
    /\ validator.fields[2].policy = NotEqualTo
    /\ Len(vret.FieldErrors) = 1
    /\ Len(vret.FieldErrors[1].Err) = 3
    /\ vret.FieldErrors[1].Policy = Custom
    /\ vret.FieldErrors[1].Value = NilValue
    /\ vret.FieldErrors[1].Expected = NilValue

\* C30: an error returned by the custom function does not end the Exec: every
\* declared field is still validated, in order, and the aggregate carries the
\* custom validation error together with the fault of every failing field.
C30_CustomErrorDoesNotStop ==
    (pc = "vdone" /\ CustomReturnsNonFieldErr) =>
        /\ Len(vcalls) = Len(validator.fields) + 1
        /\ [k \in 1..Len(validator.fields) |-> vcalls[k + 1].i]
              = [k \in 1..Len(validator.fields) |-> k]
        /\ ~vret.isNil
        /\ vret.CustomValidationError # NoErr
        /\ \A j \in 1..Len(validator.fields) :
              FieldValidate(validator.fields[j]) # NoErr =>
                 \E k \in 1..Len(vret.FieldErrors) :
                    /\ vret.FieldErrors[k].Path = validator.fields[j].path
                    /\ FieldValidate(validator.fields[j])[1]
                          \in Range(vret.FieldErrors[k].Err)

C30_Witness ==
    /\ pc = "vdone"
    /\ validator.customValidation = "cvIo"
    /\ Len(validator.fields) = 2
    /\ Len(vcalls) = 3
    /\ vret.CustomValidationError # NoErr
    /\ Len(vret.FieldErrors) = 2

-----------------------------------------------------------------------------
(* One equality declaration over values of several types, pointers among   *)
(* them, then Exec                                                         *)

EqValues ==
    {NilValue, StrVal("bob"), StrVal("al"), IntVal("0"), IntVal("1"),
     PtrVal("p1", "a"), PtrVal("p2", "a"), PtrVal("p3", "b")}

DeclareEquality ==
    /\ pc = "idle"
    /\ validator.fields = << >>
    /\ \E p \in DeclPaths, v \in EqValues, t \in EqValues :
          \/ validator' = AssertNotEqualTo(validator, p, v, t)
          \/ validator' = AssertEqualTo(validator, p, v, t)
          \/ validator' = AssertNotEqualToWhenInMask(validator, p, v, t)
          \/ validator' = AssertEqualToWhenInMask(validator, p, v, t)
    /\ UNCHANGED <<arr, pc, message, res, serr, ret, calls, vret, errs, added, xvars>>

InitF ==
    /\ \E fieldMask \in Masks :
          /\ validator = ForMessage(fieldMask)
          /\ maskArg = fieldMask
    /\ arr = Arrange
    /\ pc = "idle"
    /\ message = "m1"
    /\ res = ZeroU
    /\ serr = NilError
    /\ ret = NoRet
    /\ calls = << >>
    /\ vret = NilErrs
    /\ errs = NewValidationErrors
    /\ added = << >>
    /\ xi = 1
    /\ vcalls = << >>
    /\ first = NoExecs
    /\ cvlog = NoCustomValidation
    /\ ex = NoFrames
    /\ heap = EmptyHeap
    /\ fp = newFieldProcessor
    /\ fcall = NoCall

NextF ==
    \/ DeclareEquality
    \/ CallValidatorExec
    \/ ValidatorReturn

SpecF == InitF /\ [][NextF]_vars

\* two values of one type have the same structure
SameStructure(x, y) == x.type = y.type /\ x.v = y.v

-----------------------------------------------------------------------------
(* Two Exec calls on one validator object, their steps interleaved         *)

\* an allocator that hands the object of the first Exec to every Exec
NewAddrShared(e) == "e1"

\* errs := NewValidationErrors(): the object allocated by Exec e
NewAddr(e) == e

Returned(e) == IF ex[e].vret = NilAddr THEN NilErrs ELSE heap[ex[e].vret]

CEnter ==
    \E e \in Execs, m \in Messages :
       /\ ex[e].pc = "idle"
       /\ heap' = [heap EXCEPT ![NewAddr(e)] = NewValidationErrors]
       /\ ex' = [ex EXCEPT ![e] = [pc |-> "xcustom", message |-> m, xi |-> 1,
                                   errs |-> NewAddr(e), vret |-> NilAddr]]
       /\ UNCHANGED <<validator, arr, pc, message, res, serr, ret, calls, vret, errs,
                      added, xi, vcalls, first, cvlog, maskArg, fp, fcall>>

CCustom ==
    \E e \in Execs :
       /\ ex[e].pc = "xcustom"
       /\ heap' = [heap EXCEPT ![ex[e].errs] = RunCustom(validator, ex[e].message, @)]
       /\ ex' = [ex EXCEPT ![e].pc = "xfields", ![e].xi = 1]
       /\ UNCHANGED <<validator, arr, pc, message, res, serr, ret, calls, vret, errs,
                      added, xi, vcalls, first, cvlog, maskArg, fp, fcall>>

CField ==
    \E e \in Execs :
       /\ ex[e].pc = "xfields"
       /\ ex[e].xi <= Len(validator.fields)
       /\ LET f == validator.fields[ex[e].xi]
              err == FieldValidate(f)
          IN  heap' = [heap EXCEPT ![ex[e].errs] =
                          IF err # NoErr THEN addFieldErr(@, f, err) ELSE @]
       /\ ex' = [ex EXCEPT ![e].xi = @ + 1]
       /\ UNCHANGED <<validator, arr, pc, message, res, serr, ret, calls, vret, errs,
                      added, xi, vcalls, first, cvlog, maskArg, fp, fcall>>

CReturn ==
    \E e \in Execs :
       /\ ex[e].pc = "xfields"
       /\ ex[e].xi > Len(validator.fields)
       /\ ex' = [ex EXCEPT ![e].pc = "done",
                           ![e].vret = IF HasErrors(heap[ex[e].errs]) THEN ex[e].errs
                                       ELSE NilAddr]
       /\ UNCHANGED <<validator, arr, pc, message, res, serr, ret, calls, vret, errs,
                      added, xi, vcalls, first, cvlog, maskArg, heap, fp, fcall>>

\* the caller drops the result; its object is garbage
CDone ==
    \E e \in Execs :
       /\ ex[e].pc = "done"
       /\ ex' = [ex EXCEPT ![e] = IdleFrame]
       /\ heap' = [heap EXCEPT ![ex[e].errs] = NilErrs]
       /\ UNCHANGED <<validator, arr, pc, message, res, serr, ret, calls, vret, errs,
                      added, xi, vcalls, first, cvlog, maskArg, fp, fcall>>

\* a validator as the builder left it, CustomValidation being the last call
InitC ==
    /\ \E v \in XValidators, act \in XCustomFns \cup {NilFn} :
          /\ validator = CustomValidation(v, act)
          /\ cvlog = [act |-> act, prev |-> NilFn, fields |-> v.fields, n |-> 1]
    /\ arr = Arrange
    /\ pc = "idle"
    /\ message = "m1"
    /\ res = ZeroU
    /\ serr = NilError
    /\ ret = NoRet
    /\ calls = << >>
    /\ vret = NilErrs
    /\ errs = NewValidationErrors
    /\ added = << >>
    /\ xi = 1
    /\ vcalls = << >>
    /\ first = NoExecs
    /\ maskArg = (IF validator.paths.isNil THEN << >> ELSE <<PathFirstNameCamel>>)
    /\ ex = NoFrames
    /\ heap = EmptyHeap
    /\ fp = newFieldProcessor
    /\ fcall = NoCall

NextC ==
    \/ CEnter
    \/ CCustom
    \/ CField
    \/ CReturn
    \/ CDone

SpecC == InitC /\ [][NextC]_vars

\* C24: two Exec calls on one validator, interleaved in any order, collect
\* into objects of their own: each returns the aggregate it returns when it
\* runs alone, and the declared fields and the custom function of the
\* validator are what the builder left.
C24_ExecsShareNothing ==
    /\ \A e \in Execs :
          ex[e].pc = "done" => Returned(e) = ValidatorExec(validator, ex[e].message)
    /\ \A d, e \in Execs :
          (d # e /\ ex[d].pc # "idle" /\ ex[e].pc # "idle") => ex[d].errs # ex[e].errs
    /\ validator.fields = cvlog.fields
    /\ validator.customValidation = cvlog.act

C24_Witness ==
    /\ ex["e1"].pc = "done"
    /\ ex["e2"].pc = "xfields"
    /\ ex["e2"].xi = 2
    /\ ex["e1"].message = "m1"
    /\ ex["e2"].message = "m2"
    /\ validator.customValidation = "cvField"
    /\ Len(validator.fields) = 2
    /\ Len(Returned("e1").FieldErrors) = 2
    /\ Len(heap["e2"].FieldErrors) = 1

-----------------------------------------------------------------------------
(* Paths with an empty segment, declared and in the mask                   *)

OddPaths ==
    {<< >>, <<"_">>, <<"a", ".", ".", "b">>, <<".", "a">>, <<"a", ".">>,
     <<"a", ".", "b">>}
OddMasks == {<< >>} \cup {<<e>> : e \in OddPaths}

DeclareOdd ==
    /\ pc = "idle"
    /\ validator.fields = << >>
    /\ \E p \in OddPaths :
          validator' = AssertNonZeroWhenInMask(validator, p, StrVal(""))
    /\ UNCHANGED <<arr, pc, message, res, serr, ret, calls, vret, errs, added, xvars>>

InitM ==
    /\ \E fieldMask \in OddMasks :
          /\ validator = ForMessage(fieldMask)
          /\ maskArg = fieldMask
    /\ arr = Arrange
    /\ pc = "idle"
    /\ message = "m1"
    /\ res = ZeroU
    /\ serr = NilError
    /\ ret = NoRet
    /\ calls = << >>
    /\ vret = NilErrs
    /\ errs = NewValidationErrors
    /\ added = << >>
    /\ xi = 1
    /\ vcalls = << >>
    /\ first = NoExecs
    /\ cvlog = NoCustomValidation
    /\ ex = NoFrames
    /\ heap = EmptyHeap
    /\ fp = newFieldProcessor
    /\ fcall = NoCall

NextM ==
    \/ DeclareOdd
    \/ CallValidatorExec
    \/ ValidatorReturn

SpecM == InitM /\ [][NextM]_vars

HasEmptySegment(path) == \E part \in Range(SplitAt(path, ".")) : part = << >>

\* C25 as stated: a path with an empty segment normalizes to the empty
\* string, and a field whose normalized path is the empty string is in no
\* mask, so its WhenInMask declaration never faults.
C25_MalformedNormalizesToEmpty ==
    \A i \in 1..Len(validator.fields) :
       LET f == validator.fields[i]
       IN  /\ HasEmptySegment(f.path) => f.pathNormalized = << >>
           /\ f.pathNormalized = << >> => (~f.inMask /\ FieldValidate(f) = NoErr)

-----------------------------------------------------------------------------
(* The presence resolver: fieldProcessor.isFieldSet on one message.  A     *)
(* path is the sequence of its field names and "." delimiters.             *)

\* the schema: per message type its fields, each with its name, its JSON
\* name, and the message type of its value if it is a message
ProtoFields(type) ==
    CASE type = "UpdateUserRequest" ->
            {[name |-> "user", json |-> "user", kind |-> "message", of |-> "User"]}
      [] type = "User" ->
            {[name |-> "id", json |-> "id", kind |-> "scalar", of |-> ""],
             [name |-> "first_name", json |-> "firstName", kind |-> "scalar", of |-> ""],
             [name |-> "primary_address", json |-> "primaryAddress", kind |-> "message",
              of |-> "Address"]}
      [] type = "Address" ->
            {[name |-> "line1", json |-> "line1", kind |-> "scalar", of |-> ""]}
      [] OTHER -> {}

NoField == [name |-> "", json |-> "", kind |-> "nil", of |-> ""]

ByName(type, part) ==
    IF \E fd \in ProtoFields(type) : fd.name = part
    THEN CHOOSE fd \in ProtoFields(type) : fd.name = part
    ELSE NoField

ByJSONName(type, part) ==
    IF \E fd \in ProtoFields(type) : fd.json = part
    THEN CHOOSE fd \in ProtoFields(type) : fd.json = part
    ELSE NoField

\* the messages: nil, a request whose user has a first name and an address
\* with a line1, and a request with an empty user
NilMessage == "nil"
ProtoMessages == {NilMessage, "m1", "m2"}
PopulatedFields(msg) ==
    CASE msg = "m1" -> {<<"user">>, <<"user", "first_name">>, <<"user", "primary_address">>,
                        <<"user", "primary_address", "line1">>}
      [] msg = "m2" -> {<<"user">>}
      [] OTHER -> {}

\* message.ProtoReflect(): the type and the place of a message in the root
ProtoReflect == [type |-> "UpdateUserRequest", loc |-> << >>]
Has(msg, m, fd) == Append(m.loc, fd.name) \in PopulatedFields(msg)
Get(m, fd) == [kind |-> fd.kind, type |-> fd.of, loc |-> Append(m.loc, fd.name)]
NoValue == [kind |-> "nil", type |-> "", loc |-> << >>]
ValueMessage(v) == [type |-> v.type, loc |-> v.loc]

PartName(part) == IF part = << >> THEN "" ELSE part[1]

\* the loop of isFieldSet from segment i on; ret is "true", "false", or
\* "panic" when Value.Message is called on a value that is no message
RECURSIVE Traverse(_, _, _, _, _, _, _)
Traverse(path, fieldParts, i, msg, msgReflect, currentPath, c) ==
    IF i > Len(fieldParts) THEN [ret |-> "false", cache |-> c]
    ELSE LET key == IF currentPath = << >> THEN path ELSE currentPath \o <<".">>
             last == i = Len(fieldParts)
         IN  IF key \in DOMAIN c
             THEN IF ~c[key].set THEN [ret |-> "false", cache |-> c]
                  ELSE IF last THEN [ret |-> "true", cache |-> c]
                  ELSE IF c[key].value.kind = "nil" THEN [ret |-> "false", cache |-> c]
                  ELSE IF c[key].value.kind # "message" THEN [ret |-> "panic", cache |-> c]
                  ELSE Traverse(path, fieldParts, i + 1, msg,
                                ValueMessage(c[key].value), key, c)
             ELSE LET part == PartName(fieldParts[i])
                      byName == ByName(msgReflect.type, part)
                      fd == IF byName = NoField THEN ByJSONName(msgReflect.type, part)
                            ELSE byName
                  IN  IF fd = NoField
                      THEN [ret |-> "false",
                            cache |-> (key :> [set |-> FALSE, value |-> NoValue]) @@ c]
                      ELSE LET set == Has(msg, msgReflect, fd)
                               fieldValue == Get(msgReflect, fd)
                               c2 == (key :> [set |-> set, value |-> fieldValue]) @@ c
                           IN  IF last
                               THEN [ret |-> IF set THEN "true" ELSE "false", cache |-> c2]
                               ELSE IF fieldValue.kind # "message"
                               THEN [ret |-> "panic", cache |-> c2]
                               ELSE Traverse(path, fieldParts, i + 1, msg,
                                             ValueMessage(fieldValue), key, c2)

\* an isFieldSet that walks the empty path and the lone delimiter
isFieldSetWalksAnyPath(path, msg, c) ==
    IF msg = NilMessage THEN [ret |-> "false", cache |-> c]
    ELSE Traverse(path, SplitAt(path, "."), 1, msg, ProtoReflect, << >>, c)

isFieldSet(path, msg, c) ==
    IF msg = NilMessage \/ path = << >> \/ path = <<".">>
    THEN [ret |-> "false", cache |-> c]
    ELSE Traverse(path, SplitAt(path, "."), 1, msg, ProtoReflect, << >>, c)

ResolverPaths ==
    {<< >>, <<".">>, <<"nope">>, <<"user">>, <<"user", ".", "id">>,
     <<"user", ".", "firstName">>,
     <<"user", ".", "primary_address">>,
     <<"user", ".", "primary_address", ".", "line1">>,
     <<"user", ".", "primary_address", ".">>,
     <<"user", ".", "primary_address", ".", ".">>,
     <<"user", ".", "id", ".", "line1">>}

CallIsFieldSet ==
    /\ \E path \in ResolverPaths :
          LET r == isFieldSet(path, message, fp.cache)
          IN  /\ fp' = [cache |-> r.cache]
              /\ fcall' = [path |-> path, ret |-> r.ret, before |-> fp.cache]
    /\ UNCHANGED <<validator, arr, pc, message, res, serr, ret, calls, vret, errs,
                   added, xi, vcalls, first, cvlog, maskArg, ex, heap>>

InitR ==
    /\ validator = ForMessage(<< >>)
    /\ arr = Arrange
    /\ pc = "idle"
    /\ message \in ProtoMessages
    /\ res = ZeroU
    /\ serr = NilError
    /\ ret = NoRet
    /\ calls = << >>
    /\ vret = NilErrs
    /\ errs = NewValidationErrors
    /\ added = << >>
    /\ xi = 1
    /\ vcalls = << >>
    /\ first = NoExecs
    /\ cvlog = NoCustomValidation
    /\ maskArg = << >>
    /\ ex = NoFrames
    /\ heap = EmptyHeap
    /\ fp = newFieldProcessor
    /\ fcall = NoCall

NextR == CallIsFieldSet

SpecR == InitR /\ [][NextR]_vars

\* the paths of one segment that name no field of the root message, under
\* neither name
AbsentSingle ==
    {p \in ResolverPaths :
        /\ Len(p) = 1 /\ p # <<".">>
        /\ ByName(ProtoReflect.type, p[1]) = NoField
        /\ ByJSONName(ProtoReflect.type, p[1]) = NoField}

\* C26: isFieldSet returns false and leaves the cache as it was when the
\* message is nil, the path is empty or the path is a lone delimiter; on a
\* message that is not nil, a one-segment path that names no field of the
\* schema under its name or its JSON name returns false and has an unset
\* cache entry under the path, and every later call with it returns false
C26_GuardsAndAbsentField ==
    /\ fcall.ret # "none" =>
          /\ (message = NilMessage \/ fcall.path = << >> \/ fcall.path = <<".">>)
                => fcall.ret = "false" /\ fp.cache = fcall.before
          /\ (message # NilMessage /\ fcall.path \in AbsentSingle)
                => /\ fcall.ret = "false"
                   /\ fcall.path \in DOMAIN fp.cache
                   /\ ~fp.cache[fcall.path].set
    /\ \A p \in AbsentSingle :
          p \in DOMAIN fp.cache =>
             /\ ~fp.cache[p].set
             /\ isFieldSet(p, message, fp.cache).ret = "false"

\* a later call with the absent field's path, answered from the cache
C26_Witness ==
    /\ message # NilMessage
    /\ fcall.path \in AbsentSingle
    /\ fcall.path \in DOMAIN fcall.before
    /\ fcall.ret = "false"
    /\ \E k \in DOMAIN fp.cache : k # fcall.path

\* the dotted prefix made of the first i segments of a path
Prefix(path, i) == JoinWith(SubSeq(SplitAt(path, "."), 1, i), <<".">>)

\* a call that traversed every segment of its path on a resolver that had
\* cached nothing
TraversedWhole ==
    /\ fcall.ret \in {"true", "false"}
    /\ message # NilMessage
    /\ fcall.before = EmptyCache
    /\ Cardinality(DOMAIN fp.cache) = Len(SplitAt(fcall.path, "."))

\* C27: after a traversal of a whole path by a resolver with an empty cache,
\* each dotted prefix of the path has its own cache entry
C27_KeysAreDottedPrefixes ==
    TraversedWhole =>
        \A i \in 1..Len(SplitAt(fcall.path, ".")) : Prefix(fcall.path, i) \in DOMAIN fp.cache

\* C28: each call that returns a boolean returns the boolean that a resolver
\* with an empty cache returns for that path on that message
C28_MemoizationTransparent ==
    LET fresh == isFieldSet(fcall.path, message, EmptyCache).ret
    IN  (fcall.ret \in {"true", "false"} /\ fresh \in {"true", "false"}) => fcall.ret = fresh

====
